---- MODULE Spec2Model ----
(***************************************************************************)
(* Model of the PocketPsychology backend (src/back): the chat endpoint,    *)
(* the Celery tasks for topic extraction, recommendations and content      *)
(* generation, the Redis cache and the SQLite tables they share.           *)
(*                                                                         *)
(* Text is modelled as a sequence of characters.  A character is a string; *)
(* a Cyrillic letter is written "ru_x" (lower case) or "RU_X" (upper       *)
(* case), so that every character of the source has an ASCII name.         *)
(***************************************************************************)
EXTENDS Integers, Sequences, FiniteSets, Bags, TLC

(***************************************************************************)
(* Python values                                                           *)
(***************************************************************************)
\* Python's None for a variable that otherwise holds text.
None == <<"None">>

\* Python truthiness of an Optional[str]: None and "" are false.
Truthy(s) == s # None /\ s # <<>>

(***************************************************************************)
(* str methods used by the source                                          *)
(***************************************************************************)
Whitespace == {" ", "\n", "\t"}

RECURSIVE LStrip(_, _)
LStrip(s, chars) ==
    IF s # <<>> /\ Head(s) \in chars THEN LStrip(Tail(s), chars) ELSE s

RECURSIVE RStrip(_, _)
RStrip(s, chars) ==
    IF s # <<>> /\ s[Len(s)] \in chars
    THEN RStrip(SubSeq(s, 1, Len(s) - 1), chars)
    ELSE s

\* str.strip() (chars = Whitespace) and str.strip(chars)
StripChars(s, chars) == RStrip(LStrip(s, chars), chars)
Strip(s) == StripChars(s, Whitespace)

\* s.startswith(p)
StartsWith(s, p) == Len(s) >= Len(p) /\ SubSeq(s, 1, Len(p)) = p

\* str.find: index of the first occurrence of p in s at or after i, 0 if none
RECURSIVE FindFrom(_, _, _)
FindFrom(s, p, i) ==
    IF i + Len(p) - 1 > Len(s) THEN 0
    ELSE IF SubSeq(s, i, i + Len(p) - 1) = p THEN i
    ELSE FindFrom(s, p, i + 1)

\* p in s
Contains(s, p) == FindFrom(s, p, 1) # 0

\* s.split(p)[1], defined when p in s: the text between the first
\* occurrence of p and the next one (or the end of s)
SplitSecond(s, p) ==
    LET i == FindFrom(s, p, 1)
        rest == SubSeq(s, i + Len(p), Len(s))
        j == FindFrom(rest, p, 1)
    IN  IF j = 0 THEN rest ELSE SubSeq(rest, 1, j - 1)

\* s.replace(p, ""): one left-to-right pass over non-overlapping occurrences
RECURSIVE Remove(_, _)
Remove(s, p) ==
    LET i == FindFrom(s, p, 1)
    IN  IF i = 0 THEN s
        ELSE SubSeq(s, 1, i - 1) \o Remove(SubSeq(s, i + Len(p), Len(s)), p)

\* s[:n]
Prefix(s, n) == SubSeq(s, 1, IF Len(s) < n THEN Len(s) ELSE n)

\* str.lower() on the characters the model uses
LowerChar(c) ==
    CASE c = "T" -> "t" [] c = "O" -> "o" [] c = "P" -> "p"
      [] c = "I" -> "i" [] c = "C" -> "c" [] c = "N" -> "n"
      [] c = "E" -> "e"
      [] c = "RU_T" -> "ru_t" [] c = "RU_E" -> "ru_e"
      [] c = "RU_M" -> "ru_m" [] c = "RU_A" -> "ru_a"
      [] OTHER -> c

Lower(s) == [i \in 1..Len(s) |-> LowerChar(s[i])]

(***************************************************************************)
(* Literals of tasks.py                                                    *)
(***************************************************************************)
TopicMarkerEn == <<"T", "O", "P", "I", "C", ":">>
TopicMarkerRu == <<"RU_T", "RU_E", "RU_M", "RU_A", ":">>

\* "общение" and "communication"
DefaultTopicRu == <<"ru_o", "ru_b", "ru_sch", "ru_e", "ru_n", "ru_i", "ru_e">>
DefaultTopicEn == <<"c", "o", "m", "m", "u", "n", "i", "c", "a", "t", "i", "o", "n">>

\* ["none", "нет", "неизвестно", "unknown", "тема:", "topic:", "n/a", "н/д"]
EmptyTopicWords == {
    <<"n", "o", "n", "e">>,
    <<"ru_n", "ru_e", "ru_t">>,
    <<"ru_n", "ru_e", "ru_i", "ru_z", "ru_v", "ru_e", "ru_s", "ru_t", "ru_n", "ru_o">>,
    <<"u", "n", "k", "n", "o", "w", "n">>,
    <<"ru_t", "ru_e", "ru_m", "ru_a", ":">>,
    <<"t", "o", "p", "i", "c", ":">>,
    <<"n", "/", "a">>,
    <<"ru_n", "/", "ru_d">> }

TopicMaxLen == 30

DefaultTopic(language) ==
    IF language = "ru" THEN DefaultTopicRu ELSE DefaultTopicEn

\* the clean-up without its two replacements of an empty topic by the default
CleanTopicKeepEmpty(content, language) ==
    LET ai_response == Strip(content)
        marker == IF language = "en" THEN TopicMarkerEn ELSE TopicMarkerRu
        t1 == IF Contains(ai_response, marker)
              THEN Strip(SplitSecond(ai_response, marker))
              ELSE ai_response
        t2 == Strip(StripChars(StripChars(Strip(t1), {"\""}), {"'"}))
        t3 == IF Len(t2) > TopicMaxLen THEN Strip(Prefix(t2, TopicMaxLen)) ELSE t2
    IN  Strip(Remove(Remove(t3, TopicMarkerRu), TopicMarkerEn))

\* tasks.py lines 89-112: the topic computed from the LLM reply
CleanTopic(content, language) ==
    LET ai_response == Strip(content)
        marker == IF language = "en" THEN TopicMarkerEn ELSE TopicMarkerRu
        t1 == IF Contains(ai_response, marker)
              THEN Strip(SplitSecond(ai_response, marker))
              ELSE ai_response
        t2 == Strip(StripChars(StripChars(Strip(t1), {"\""}), {"'"}))
        t3 == IF Len(t2) > TopicMaxLen THEN Strip(Prefix(t2, TopicMaxLen)) ELSE t2
        t4 == IF t3 = <<>> \/ Lower(t3) \in EmptyTopicWords
              THEN DefaultTopic(language) ELSE t3
        t5 == Strip(Remove(Remove(t4, TopicMarkerRu), TopicMarkerEn))
    IN  IF t5 = <<>> THEN DefaultTopic(language) ELSE t5

(***************************************************************************)
(* Article generation, content_generator.py                                *)
(***************************************************************************)
\* "TITLE:", "CONTENT:", "ЗАГОЛОВОК:", "СОДЕРЖАНИЕ:"
TitleMarkerEn == <<"T", "I", "T", "L", "E", ":">>
ContentMarkerEn == <<"C", "O", "N", "T", "E", "N", "T", ":">>
TitleMarkerRu == <<"RU_Z", "RU_A", "RU_G", "RU_O", "RU_L", "RU_O", "RU_V", "RU_O", "RU_K", ":">>
ContentMarkerRu ==
    <<"RU_S", "RU_O", "RU_D", "RU_E", "RU_R", "RU_ZH", "RU_A", "RU_N", "RU_I", "RU_E", ":">>

\* Python's None for a variable that otherwise holds an article dict
NoArticle ==
    [title |-> <<>>, content |-> <<>>, topic |-> None, approach |-> "", is_fallback |-> FALSE]

\* content_generator.py lines 51-67: the approaches, in order
Approaches == <<"practical", "theoretical", "motivational">>

\* content_generator.py line 71
MaxAttempts == 3

\* content_generator.py lines 156-182: the parse of the reply, split in lines
RECURSIVE ParseLines(_, _, _)
ParseLines(lines, language, acc) ==
    IF lines = <<>> THEN acc
    ELSE LET line == Strip(Head(lines))
             tm == IF language = "en" THEN TitleMarkerEn ELSE TitleMarkerRu
             cm == IF language = "en" THEN ContentMarkerEn ELSE ContentMarkerRu
             next ==
                 IF line = <<>> THEN acc
                 ELSE IF StartsWith(line, tm)
                 THEN [acc EXCEPT !.title = Strip(Remove(line, tm)), !.started = FALSE]
                 ELSE IF StartsWith(line, cm)
                 THEN [acc EXCEPT !.content = Strip(Remove(line, cm)), !.started = TRUE]
                 ELSE IF acc.started
                 THEN [acc EXCEPT !.content = @ \o <<" ">> \o line]
                 ELSE acc
         IN  ParseLines(Tail(lines), language, next)

\* a reply of the LLM: the lines of its text, or an exception of the call
LlmError == <<<<"LlmError">>>>

\* _generate_article_with_approach, content_generator.py lines 98-197: the
\* article parsed from the reply, None when title or content is empty and
\* when the call raised
GenerateArticleWithApproach(topic, approach, language, reply) ==
    IF reply = LlmError THEN NoArticle
    ELSE LET parsed == ParseLines(reply, language,
                                  [title |-> <<>>, content |-> <<>>, started |-> FALSE])
         IN  IF parsed.title # <<>> /\ parsed.content # <<>>
             THEN [title |-> parsed.title, content |-> parsed.content, topic |-> topic,
                   approach |-> approach, is_fallback |-> FALSE]
             ELSE NoArticle

\* a fallback that gives None for the motivational approach
CreateFallbackArticleNone(topic, approach, language) ==
    LET lang == IF language = "en" THEN "en" ELSE "ru"
    IN  IF approach = "motivational" THEN NoArticle
        ELSE [title |-> <<"fallback title " \o approach \o " " \o lang \o ": ">> \o topic,
              content |-> <<"fallback content " \o approach \o " " \o lang \o ": ">> \o topic,
              topic |-> topic, approach |-> approach, is_fallback |-> TRUE]

\* _create_fallback_article, content_generator.py lines 213-264: the template
\* of the approach and language filled with the topic; the literal text of a
\* template is one character here
CreateFallbackArticle(topic, approach, language) ==
    LET lang == IF language = "en" THEN "en" ELSE "ru"
    IN  [title |-> <<"fallback title " \o approach \o " " \o lang \o ": ">> \o topic,
         content |-> <<"fallback content " \o approach \o " " \o lang \o ": ">> \o topic,
         topic |-> topic, approach |-> approach, is_fallback |-> TRUE]

\* "QUOTE:", "AUTHOR:", "ЦИТАТА:", "АВТОР:"
QuoteMarkerEn == <<"Q", "U", "O", "T", "E", ":">>
AuthorMarkerEn == <<"A", "U", "T", "H", "O", "R", ":">>
QuoteMarkerRu == <<"RU_TS", "RU_I", "RU_T", "RU_A", "RU_T", "RU_A", ":">>
AuthorMarkerRu == <<"RU_A", "RU_V", "RU_T", "RU_O", "RU_R", ":">>

\* content_generator.py lines 463-472: the parse of a quote reply; the lines
\* are not stripped before the markers are looked for
RECURSIVE ParseQuoteLines(_, _, _)
ParseQuoteLines(lines, language, acc) ==
    IF lines = <<>> THEN acc
    ELSE LET line == Head(lines)
             qm == IF language = "en" THEN QuoteMarkerEn ELSE QuoteMarkerRu
             am == IF language = "en" THEN AuthorMarkerEn ELSE AuthorMarkerRu
             next ==
                 IF StartsWith(line, qm)
                 THEN [acc EXCEPT !.text = Strip(Remove(line, qm))]
                 ELSE IF StartsWith(line, am)
                 THEN [acc EXCEPT !.author = Strip(Remove(line, am))]
                 ELSE acc
         IN  ParseQuoteLines(Tail(lines), language, next)

\* "мотивация", "motivation"
MotivationRu == <<"ru_m", "ru_o", "ru_t", "ru_i", "ru_v", "ru_a", "ru_ts", "ru_i", "ru_ya">>
MotivationEn == <<"m", "o", "t", "i", "v", "a", "t", "i", "o", "n">>

\* _generate_quote, content_generator.py lines 397-511: the quote returned
\* and whether it was saved in table quotes (line 476); popular is the
\* result of db.get_popular_topics
GenerateQuote(topic, language, reply, popular) ==
    LET topic_name ==
            IF Truthy(topic) THEN topic
            ELSE IF popular # <<>> THEN popular[1]
            ELSE IF language = "ru" THEN MotivationRu ELSE MotivationEn
        lang == IF language = "en" THEN "en" ELSE "ru"
        fallback_topic == IF language = "en" THEN MotivationEn ELSE MotivationRu
        parsed == ParseQuoteLines(reply, language,
                                  [text |-> <<>>, author |-> <<"fallback author " \o lang>>])
    IN  IF reply = LlmError
        THEN [quote |-> [text |-> <<"Gandhi quote " \o lang>>, author |-> <<"Gandhi " \o lang>>,
                         topic |-> fallback_topic, is_generated |-> FALSE],
              saved |-> FALSE]
        ELSE IF parsed.text # <<>>
        THEN [quote |-> [text |-> parsed.text, author |-> parsed.author,
                         topic |-> topic_name, is_generated |-> TRUE],
              saved |-> TRUE]
        ELSE [quote |-> [text |-> <<"fallback quote " \o lang>>,
                         author |-> <<"fallback author " \o lang>>,
                         topic |-> fallback_topic, is_generated |-> FALSE],
              saved |-> FALSE]

(***************************************************************************)
(* Bounds and input sets                                                   *)
(***************************************************************************)
\* number of POST /chat requests explored
MaxChats == 2
\* number of other external events explored: other API requests, key expirations
MaxEvents == 1

Users == {"u1"}
Languages == {"ru", "en"}

\* LLM replies to the topic-extraction prompt explored by Spec:
\* "stress" and "TOPIC: sleep"
ChatReplies == {
    <<"s", "t", "r", "e", "s", "s">>,
    TopicMarkerEn \o <<" ", "s", "l", "e", "e", "p">> }

(***************************************************************************)
(* State                                                                   *)
(***************************************************************************)
VARIABLES
    redis,          \* Redis: key -> [val, ttl]; a key absent from DOMAIN does not exist
    user_topics,    \* table user_topics: user_id -> current_topic (one row per user)
    conversations,  \* users with at least one row in table conversations
    user_sessions,  \* users with a row in table user_sessions
    tasks,          \* bag of extract/recommendation Celery tasks enqueued or running
    content_tasks,  \* content-generation task messages sent with .delay(), with their cause
    web,            \* the request the API process is serving, and its position
    client_language, \* the language the client sends with its requests in this run
    nevents,        \* number of external events other than POST /chat so far
    msgs,           \* history: one record per POST /chat that enqueued tasks
    deleted,        \* history: per user, "never", "done" (deleted, no request since), "stale"
    refreshed,      \* history: per user, "never", "armed" (refreshed, no extraction started since), "past"
    generated_content, \* table generated_content: the set of its rows
    quotes,         \* table quotes: the set of its rows
    job,            \* the content-generation task or request being run, and its position
    gen,            \* the frame of the _generate_multiple_articles call in progress
    response,       \* the last response of POST /content/generate
    njobs,          \* number of content-generation tasks and requests started so far
    produced,       \* history: the articles and quotes the generation paths obtained
    youtube,        \* the YouTubeService object of the API process: its fields
    now,            \* datetime.now(), in hours since the process started
    search,         \* the last search_videos call: its key, its result, whether it called the API
    videos_response, \* the last response of GET /content/videos
    quota_at,       \* history: the time of the last quotaExceeded error
    stores,         \* history: per cache key, the last list stored under it, when, and whether the cache was cleared since
    forced,         \* history of force_retry_youtube_api: armed (a retry was forced and no search
                    \* has had to go past the cache since), backoff (the last one came during a
                    \* back-off), since (one came after the last quotaExceeded error)
    conversation_history, \* AIService.conversation_history: mode -> list of messages
    llm_messages,   \* the message list of the last chat completion request of get_response
    added           \* history: per mode, the messages added to its history since it was last cleared

vars == <<redis, user_topics, conversations, user_sessions, tasks, content_tasks,
          web, client_language, nevents, msgs, deleted, refreshed,
          generated_content, quotes, job, gen, response, njobs, produced,
          youtube, now, search, videos_response, quota_at, stores, forced,
          conversation_history, llm_messages, added>>

\* the in-memory state of YouTubeService and of AIService
youtubeVars == <<youtube, now, search, videos_response, quota_at, stores, forced>>
historyVars == <<conversation_history, llm_messages, added>>

\* what the chat path leaves alone, and what content generation leaves alone
contentVars == <<generated_content, quotes, job, gen, response, njobs, produced,
                 youtubeVars, historyVars>>
chatVars == <<user_topics, conversations, user_sessions, tasks, content_tasks,
              web, client_language, nevents, msgs, deleted, refreshed,
              youtubeVars, historyVars>>

storeVars == <<redis, user_topics, conversations, user_sessions>>
histVars == <<msgs, deleted, refreshed>>

\* Redis keys of tasks.py and main.py
TopicKey(u) == <<"user_topic", u>>
RecKey(u) == <<"recommendations", u>>
RecLangKey(u, l) == <<"recommendations", u, l>>

\* the user a key belongs to
KeyUser(k) == k[2]

\* redis_client.setex(key, ttl, val)
SetEx(r, key, ttl, val) == (key :> [val |-> val, ttl |-> ttl]) @@ r

\* redis_client.delete(key) for each key of keys
Delete(r, keys) == [k \in DOMAIN r \ keys |-> r[k]]

\* DELETE FROM user_topics WHERE user_id = u
DeleteRow(t, u) == [k \in DOMAIN t \ {u} |-> t[k]]

\* database.py get_user_current_topic: row[0] if row else None
GetUserCurrentTopic(u) == IF u \in DOMAIN user_topics THEN user_topics[u] ELSE None

\* database.py update_user_current_topic
UpdateUserCurrentTopic(t, u, topic) ==
    IF topic = None THEN DeleteRow(t, u) ELSE (u :> topic) @@ t

TopicTtl == 300
RecommendationsTtl == 1800

Idle == [op |-> "idle", user |-> "", pc |-> "", val |-> None]

\* no content-generation task or request is running
NoJob == [path |-> "", pc |-> "", content_type |-> "", topic |-> None, language |-> "",
          llm |-> "", topics |-> <<>>, popular |-> <<>>, articles |-> <<>>, quotes |-> <<>>]

\* no call of _generate_multiple_articles is in progress
NoGen == [pc |-> "idle", topic |-> None, language |-> "", i |-> 0, attempt |-> 0,
          article |-> NoArticle, articles |-> <<>>, calls |-> 0, log |-> <<>>]

NoResponse == [status |-> 0, articles |-> <<>>, quote |-> <<>>]

\* AIService.__init__, ai_service.py line 50, populate_default_quotes: the
\* table quotes holds the default quotes, none of them generated
DefaultQuotes ==
    {[text |-> <<"default quote " \o l>>, author |-> <<"default author">>,
      topic |-> <<"default topic">>, language |-> l, is_generated |-> FALSE] : l \in {"ru", "en"}}

\* content generation before its first task or request
InitContent ==
    /\ generated_content = {}
    /\ quotes = DefaultQuotes
    /\ job = NoJob
    /\ gen = NoGen
    /\ response = NoResponse
    /\ njobs = 0
    /\ produced = [articles |-> {}, quotes |-> {}]

\* a task message: kind "extract" or "recs"
Task(kind, u, l, m) ==
    [kind |-> kind, user |-> u, lang |-> l, msg |-> m, pc |-> "start",
     reply |-> None, topic |-> None, prev |-> None, tag |-> FALSE]

\* task.delay(...)
Enqueue(b, t) == b (+) SetToBag({t})
Dequeue(b, t) == b (-) SetToBag({t})

TasksOf(u) == {t \in BagToSet(tasks) : t.user = u}

\* history: the index in msgs of the user's last chat message, 0 if none
LastMsg(u) ==
    LET own == {m \in 1..Len(msgs) : msgs[m].user = u}
    IN  IF own = {} THEN 0 ELSE CHOOSE m \in own : \A n \in own : n <= m

\* history: something other than the tasks of the user's last chat touched the user
Unquiet(ms, u) ==
    [m \in 1..Len(ms) |->
        IF ms[m].user = u THEN [ms[m] EXCEPT !.quiet = FALSE] ELSE ms[m]]

\* history: a request for the user arrived
Requested(d, u) == [d EXCEPT ![u] = IF @ = "done" THEN "stale" ELSE @]

\* one more external event, within the bound
Event == nevents < MaxEvents /\ nevents' = nevents + 1 /\ UNCHANGED client_language

\* a datetime field that holds None
NoTime == -1

\* YouTubeService.__init__; youtube is true when YOUTUBE_API_KEY is set
YouTubeService(configured) ==
    [youtube |-> configured, cache |-> <<>>,
     quota_exceeded_time |-> NoTime, quota_exceeded_count |-> 0]

NoSearch == [key |-> <<>>, result |-> <<>>, api |-> FALSE]
NoVideosResponse == [status |-> 0, videos |-> <<>>]

InitYouTube(configured) ==
    /\ youtube = YouTubeService(configured)
    /\ now = 0
    /\ search = NoSearch
    /\ videos_response = NoVideosResponse
    /\ quota_at = NoTime
    /\ stores = <<>>
    /\ forced = [armed |-> FALSE, backoff |-> FALSE, since |-> FALSE]

\* ChatMode
ChatModes == {"support", "analysis", "practice"}

\* AIService.__init__: no conversation has a history yet
InitHistory ==
    /\ conversation_history = <<>>
    /\ llm_messages = <<>>
    /\ added = [mode \in ChatModes |-> <<>>]

InitChat ==
    /\ redis = <<>>
    /\ user_topics = <<>>
    /\ conversations = {}
    /\ user_sessions = {}
    /\ tasks = EmptyBag
    /\ content_tasks = {}
    /\ web = Idle
    /\ client_language \in Languages
    /\ nevents = 0
    /\ msgs = <<>>
    /\ deleted = [u \in Users |-> "never"]
    /\ refreshed = [u \in Users |-> "never"]

Init ==
    /\ InitChat
    /\ InitContent
    /\ InitYouTube(TRUE)
    /\ InitHistory

(***************************************************************************)
(* The API process (main.py).  Its handlers are coroutines that never      *)
(* await between their first and last statement, so one request is served  *)
(* at a time; the Celery workers run between any two Redis or SQLite       *)
(* operations of a handler.                                                *)
(***************************************************************************)

\* POST /chat -> AIService.get_response, ai_service.py lines 135-180:
\* save the message, call the LLM, enqueue the two tasks; the handler goes
\* on with get_cached_topic (line 183).  An LLM error (llm_ok = FALSE) ends
\* the handler in the except branch after the user message was saved.
Chat(u, language, detected, llm_ok) ==
    LET final_language == IF language = "ru" THEN language ELSE detected
        m == Len(msgs) + 1
    IN  /\ web = Idle
        /\ Len(msgs) < MaxChats
        /\ conversations' = conversations \cup {u}
        /\ user_sessions' = user_sessions \cup {u}
        /\ deleted' = Requested(deleted, u)
        /\ IF llm_ok
           THEN /\ tasks' = Enqueue(Enqueue(tasks, Task("extract", u, final_language, m)),
                                    Task("recs", u, final_language, m))
                /\ msgs' = Append(Unquiet(msgs, u),
                                  [user |-> u, lang |-> final_language,
                                   quiet |-> (TasksOf(u) = {}),
                                   verdict |-> "pending", topic |-> None])
                /\ web' = [op |-> "chat", user |-> u, pc |-> "gct_get", val |-> None]
           ELSE /\ msgs' = Unquiet(msgs, u)
                /\ UNCHANGED <<tasks, web>>
        /\ UNCHANGED <<redis, user_topics, content_tasks, client_language, nevents, refreshed>>

\* GET /user/{user_id}/topic, main.py lines 206-215: calls get_cached_topic
GetUserTopic(u) ==
    /\ web = Idle
    /\ Event
    /\ web' = [op |-> "get_topic", user |-> u, pc |-> "gct_get", val |-> None]
    /\ deleted' = Requested(deleted, u)
    /\ msgs' = Unquiet(msgs, u)
    /\ UNCHANGED <<storeVars, tasks, content_tasks, refreshed>>

\* what a call of get_cached_topic (tasks.py lines 704-726) returns when no
\* other process runs during it
GetCachedTopicResult(u) ==
    IF TopicKey(u) \in DOMAIN redis /\ Truthy(redis[TopicKey(u)].val)
    THEN redis[TopicKey(u)].val
    ELSE IF Truthy(GetUserCurrentTopic(u)) THEN GetUserCurrentTopic(u)
    ELSE DefaultTopicRu

\* get_cached_topic, tasks.py lines 706-712: redis_client.get; a truthy
\* value is the one to return (the client decodes responses, line 35, so it
\* is a str already)
GetCachedTopicGet ==
    /\ web.pc = "gct_get"
    /\ IF TopicKey(web.user) \in DOMAIN redis /\ Truthy(redis[TopicKey(web.user)].val)
       THEN web' = [web EXCEPT !.pc = "gct_ret", !.val = redis[TopicKey(web.user)].val]
       ELSE web' = [web EXCEPT !.pc = "gct_db"]
    /\ UNCHANGED <<client_language, nevents, storeVars, tasks, content_tasks, histVars>>

\* get_cached_topic, tasks.py lines 715-717 and 724: the value to cache is
\* the database topic, or the fallback "общение"
GetCachedTopicDb ==
    /\ web.pc = "gct_db"
    /\ LET db_topic == GetUserCurrentTopic(web.user)
       IN  web' = [web EXCEPT !.pc = "gct_set",
                              !.val = IF Truthy(db_topic) THEN db_topic ELSE DefaultTopicRu]
    /\ UNCHANGED <<client_language, nevents, storeVars, tasks, content_tasks, histVars>>

\* get_cached_topic, tasks.py lines 719 and 725: setex of the value to return
GetCachedTopicSet ==
    /\ web.pc = "gct_set"
    /\ redis' = SetEx(redis, TopicKey(web.user), TopicTtl, web.val)
    /\ web' = [web EXCEPT !.pc = "gct_ret"]
    /\ UNCHANGED <<client_language, nevents, user_topics, conversations, user_sessions, tasks, content_tasks, histVars>>

\* get_cached_topic, tasks.py lines 712, 720 and 726: return the topic; the
\* caller (main.py line 210, ai_service.py line 183) puts it in its response
\* and ends
GetCachedTopicReturn ==
    /\ web.pc = "gct_ret"
    /\ web' = Idle
    /\ UNCHANGED <<client_language, nevents, storeVars, tasks, content_tasks, histVars>>

\* POST /user/{user_id}/topic/refresh -> force_refresh_topic, tasks.py
\* lines 759-771: read the key for the log, delete it
RefreshUserTopic(u) ==
    /\ web = Idle
    /\ Event
    /\ redis' = Delete(redis, {TopicKey(u)})
    /\ web' = [op |-> "refresh", user |-> u, pc |-> "rf_db", val |-> None]
    /\ deleted' = Requested(deleted, u)
    /\ msgs' = Unquiet(msgs, u)
    /\ UNCHANGED <<user_topics, conversations, user_sessions, tasks, content_tasks, refreshed>>

\* force_refresh_topic, tasks.py lines 774-777: clear the row and return
ForceRefreshTopicDb ==
    /\ web.pc = "rf_db"
    /\ user_topics' = UpdateUserCurrentTopic(user_topics, web.user, None)
    /\ refreshed' = [refreshed EXCEPT ![web.user] = "armed"]
    /\ web' = Idle
    /\ UNCHANGED <<client_language, nevents, redis, conversations, user_sessions, tasks, content_tasks, msgs, deleted>>

\* Python's None for a variable that otherwise holds a recommendations dict
NoRecommendations == [topic |-> None, language |-> ""]

\* the key get_cached_recommendations reads, tasks.py line 730
CachedRecommendationsKey(user_id) == RecKey(user_id)

\* get_cached_recommendations, tasks.py lines 728-734
GetCachedRecommendations(u) ==
    IF CachedRecommendationsKey(u) \in DOMAIN redis
    THEN redis[CachedRecommendationsKey(u)].val
    ELSE NoRecommendations

\* GET /user/{user_id}/recommendations, main.py lines 230-251
GetUserRecommendations(u, language) ==
    /\ web = Idle
    /\ Event
    /\ IF GetCachedRecommendations(u) = NoRecommendations
       THEN tasks' = Enqueue(tasks, Task("recs", u, language, 0))
       ELSE UNCHANGED tasks
    /\ deleted' = Requested(deleted, u)
    /\ msgs' = Unquiet(msgs, u)
    /\ UNCHANGED <<storeVars, content_tasks, web, refreshed>>

\* DELETE /user/{user_id}/delete, main.py lines 262-271 with
\* Database.delete_user_account, database.py lines 632-661: one SQLite
\* transaction; a user without conversations gets 404
DeleteUserAccount(u) ==
    /\ web = Idle
    /\ Event
    /\ msgs' = Unquiet(msgs, u)
    /\ deleted' = Requested(deleted, u)
    /\ IF u \in conversations
       THEN /\ conversations' = conversations \ {u}
            /\ user_sessions' = user_sessions \ {u}
            /\ user_topics' = DeleteRow(user_topics, u)
            /\ web' = [op |-> "delete", user |-> u, pc |-> "del_cache", val |-> None]
       ELSE UNCHANGED <<conversations, user_sessions, user_topics, web>>
    /\ UNCHANGED <<redis, tasks, content_tasks, refreshed>>

\* delete_user_account, main.py lines 273-291: delete the four keys, return
DeleteUserCache ==
    /\ web.pc = "del_cache"
    /\ redis' = Delete(redis, {TopicKey(web.user), RecKey(web.user)}
                              \cup {RecLangKey(web.user, l) : l \in Languages})
    /\ deleted' = [deleted EXCEPT ![web.user] = "done"]
    /\ web' = Idle
    /\ UNCHANGED <<client_language, nevents, user_topics, conversations, user_sessions, tasks, content_tasks,
                   msgs, refreshed>>

(***************************************************************************)
(* The Celery workers (tasks.py).  A task is a sequence of steps, one per  *)
(* Redis or SQLite operation; tasks run concurrently with each other and   *)
(* with the API process.                                                   *)
(***************************************************************************)
Step(t, t2) == Enqueue(Dequeue(tasks, t), t2)

\* extract_topic_from_message, tasks.py lines 43-119: the LLM call, the
\* cleaning of its reply and the setex of the topic.  An exception of the
\* LLM call ends the task with an error result.
ExtractCache(t, replies) ==
    /\ t.kind = "extract" /\ t.pc = "start"
    /\ \/ \E content \in replies :
            LET topic == CleanTopic(content, t.lang)
            IN  /\ redis' = SetEx(redis, TopicKey(t.user), TopicTtl, topic)
                /\ tasks' = Step(t, [t EXCEPT !.pc = "cached", !.reply = content,
                                              !.topic = topic,
                                              !.tag = (refreshed[t.user] = "armed")])
       \/ /\ tasks' = Dequeue(tasks, t)
          /\ UNCHANGED redis
    /\ refreshed' = [refreshed EXCEPT ![t.user] = IF @ = "armed" THEN "past" ELSE @]
    /\ UNCHANGED <<client_language, nevents, user_topics, conversations, user_sessions, content_tasks, web,
                   msgs, deleted>>

\* tasks.py lines 122-123: previous_topic = db.get_user_current_topic(user_id)
ExtractReadPrevious(t) ==
    /\ t.kind = "extract" /\ t.pc = "cached"
    /\ tasks' = Step(t, [t EXCEPT !.pc = "read", !.prev = GetUserCurrentTopic(t.user)])
    /\ UNCHANGED <<client_language, nevents, storeVars, content_tasks, web, histVars>>

\* tasks.py line 126: db.update_user_current_topic(user_id, topic)
ExtractUpdate(t) ==
    /\ t.kind = "extract" /\ t.pc = "read"
    /\ user_topics' = UpdateUserCurrentTopic(user_topics, t.user, t.topic)
    /\ tasks' = Step(t, [t EXCEPT !.pc = "updated"])
    /\ UNCHANGED <<client_language, nevents, redis, conversations, user_sessions, content_tasks, web, histVars>>

\* a generate_content_for_topic.delay(topic, content_type, language) message
GenerateTask(topic, content_type, language, t) ==
    [kind |-> "generate", topic |-> topic, content_type |-> content_type,
     lang |-> language, user |-> t.user, msg |-> t.msg, by |-> t.kind]

\* a generate_initial_random_content.delay() message
InitialTask(t) ==
    [kind |-> "initial", topic |-> None, content_type |-> "article",
     lang |-> "ru", user |-> t.user, msg |-> t.msg, by |-> t.kind]

\* tasks.py lines 130-187: decide whether the topic changed (different
\* = the answer of _check_if_topics_are_similar, lines 193-274, which is
\* TRUE when the LLM does not say "similar" and when the call fails),
\* enqueue the follow-up tasks and return
ExtractFinish(t, different) ==
    /\ t.kind = "extract" /\ t.pc = "updated"
    /\ LET is_first_message == t.prev = None
           topic_changed ==
               IF Truthy(t.prev) /\ t.topic # t.prev THEN different
               ELSE IF Truthy(t.prev) THEN t.prev # t.topic ELSE TRUE
           recs == Task("recs", t.user, t.lang, t.msg)
       IN  /\ IF is_first_message
              THEN /\ content_tasks' = content_tasks \cup {InitialTask(t)}
                   /\ tasks' = Enqueue(Dequeue(tasks, t), recs)
              ELSE IF topic_changed
              THEN /\ content_tasks' = content_tasks \cup
                          {GenerateTask(t.topic, "article", t.lang, t),
                           GenerateTask(t.topic, "quote", t.lang, t)}
                   /\ tasks' = Enqueue(Dequeue(tasks, t), recs)
              ELSE /\ tasks' = Dequeue(tasks, t)
                   /\ UNCHANGED content_tasks
           /\ msgs' = [msgs EXCEPT ![t.msg] =
                          [@ EXCEPT !.topic = t.topic,
                                    !.verdict = IF is_first_message THEN "first"
                                                ELSE IF topic_changed THEN "changed"
                                                ELSE "same"]]
    /\ UNCHANGED <<client_language, nevents, storeVars, web, deleted, refreshed>>

\* update_user_recommendations, tasks.py lines 350-362: read the current
\* topic; without one return, else enqueue the article and quote tasks
RecommendationsRead(t) ==
    /\ t.kind = "recs" /\ t.pc = "start"
    /\ LET current_topic == GetUserCurrentTopic(t.user)
       IN  IF ~Truthy(current_topic)
           THEN /\ tasks' = Dequeue(tasks, t)
                /\ UNCHANGED content_tasks
           ELSE /\ content_tasks' = content_tasks \cup
                       {GenerateTask(current_topic, "article", t.lang, t),
                        GenerateTask(current_topic, "quote", t.lang, t)}
                /\ tasks' = Step(t, [t EXCEPT !.pc = "read", !.topic = current_topic])
    /\ UNCHANGED <<client_language, nevents, storeVars, web, histVars>>

\* the value json.dumps(recommendations) of tasks.py lines 368-373; the video
\* list and the timestamp are left out
Recommendations(topic, language) == [topic |-> topic, language |-> language]

\* the key update_user_recommendations writes, tasks.py line 375
RecommendationsCacheKey(user_id, language) == RecLangKey(user_id, language)

\* update_user_recommendations, tasks.py lines 365-386: search the videos
\* (search_videos returns a list in every case), setex, return
RecommendationsWrite(t) ==
    /\ t.kind = "recs" /\ t.pc = "read"
    /\ redis' = SetEx(redis, RecommendationsCacheKey(t.user, t.lang), RecommendationsTtl,
                      Recommendations(t.topic, t.lang))
    /\ tasks' = Dequeue(tasks, t)
    /\ UNCHANGED <<client_language, nevents, user_topics, conversations, user_sessions, content_tasks, web, histVars>>

\* Redis drops a key when its time-to-live has passed
Expire(k) ==
    /\ k \in DOMAIN redis
    /\ Event
    /\ redis' = Delete(redis, {k})
    /\ msgs' = Unquiet(msgs, KeyUser(k))
    /\ UNCHANGED <<user_topics, conversations, user_sessions, tasks, content_tasks, web,
                   deleted, refreshed>>

ApiStep ==
    \/ \E u \in Users, detected \in {client_language}, llm_ok \in BOOLEAN :
          Chat(u, client_language, detected, llm_ok)
    \/ \E u \in Users : GetUserTopic(u)
    \/ GetCachedTopicGet
    \/ GetCachedTopicDb
    \/ GetCachedTopicSet
    \/ GetCachedTopicReturn
    \/ \E u \in Users : RefreshUserTopic(u)
    \/ ForceRefreshTopicDb
    \/ \E u \in Users : GetUserRecommendations(u, client_language)
    \/ \E u \in Users : DeleteUserAccount(u)
    \/ DeleteUserCache

WorkerStep ==
    \E t \in BagToSet(tasks) :
        \/ ExtractCache(t, ChatReplies)
        \/ ExtractReadPrevious(t)
        \/ ExtractUpdate(t)
        \/ \E different \in BOOLEAN : ExtractFinish(t, different)
        \/ RecommendationsRead(t)
        \/ RecommendationsWrite(t)

Next ==
    \/ ApiStep /\ UNCHANGED contentVars
    \/ WorkerStep /\ UNCHANGED contentVars
    \/ \E k \in DOMAIN redis : Expire(k) /\ UNCHANGED contentVars

Spec == Init /\ [][Next]_vars

(***************************************************************************)
(* Content generation.  The caller (a Celery task or the handler of POST   *)
(* /content/generate) is job; its call of _generate_multiple_articles is   *)
(* gen, which advances by one LLM call at a time.                          *)
(***************************************************************************)
\* number of content-generation tasks and requests in a run
MaxJobs == 1

\* the call _generate_multiple_articles({"topic": topic, ...}, language),
\* content_generator.py lines 46-69: at the first attempt of the first approach
GenCall(topic, language) ==
    [pc |-> "attempt", topic |-> topic, language |-> language, i |-> 1, attempt |-> 0,
     article |-> NoArticle, articles |-> <<>>, calls |-> 0, log |-> <<>>]

\* content_generator.py lines 69-71 and 95-96: the next approach, or the return
GenNextApproach(g) ==
    IF g.i < Len(Approaches)
    THEN [g EXCEPT !.i = @ + 1, !.attempt = 0, !.article = NoArticle, !.pc = "attempt"]
    ELSE [g EXCEPT !.pc = "returned"]

\* the frame after one more completion: log is the history of the attempts
Called(g, article) ==
    [g EXCEPT !.calls = @ + 1, !.article = article,
              !.log = Append(@, [approach |-> Approaches[g.i],
                                 parsed |-> article # NoArticle])]

\* the attempt loop with range(max_attempts + 1)
GenAttemptOneMore(reply) ==
    /\ gen.pc = "attempt"
    /\ LET article == GenerateArticleWithApproach(gen.topic, Approaches[gen.i],
                                                  gen.language, reply)
           called == Called(gen, article)
       IN  gen' = IF article # NoArticle
                  THEN GenNextApproach([called EXCEPT !.articles = Append(@, article)])
                  ELSE IF gen.attempt + 1 < MaxAttempts + 1
                  THEN [called EXCEPT !.attempt = @ + 1]
                  ELSE [called EXCEPT !.pc = "fallback"]
    /\ UNCHANGED <<redis, chatVars, generated_content, quotes, job, response, njobs, produced>>

\* content_generator.py lines 73-85: one pass of the attempt loop, on the
\* reply the LLM gives to this attempt
GenAttempt(reply) ==
    /\ gen.pc = "attempt"
    /\ LET article == GenerateArticleWithApproach(gen.topic, Approaches[gen.i],
                                                  gen.language, reply)
           called == Called(gen, article)
       IN  gen' = IF article # NoArticle
                  THEN GenNextApproach([called EXCEPT !.articles = Append(@, article)])
                  ELSE IF gen.attempt + 1 < MaxAttempts
                  THEN [called EXCEPT !.attempt = @ + 1]
                  ELSE [called EXCEPT !.pc = "fallback"]
    /\ UNCHANGED <<redis, chatVars, generated_content, quotes, job, response, njobs, produced>>

\* content_generator.py lines 88-93: no attempt gave an article
GenFallback ==
    /\ gen.pc = "fallback"
    /\ LET fallback_article ==
               CreateFallbackArticle(gen.topic, Approaches[gen.i], gen.language)
       IN  gen' = GenNextApproach(IF fallback_article # NoArticle
                                  THEN [gen EXCEPT !.articles = Append(@, fallback_article)]
                                  ELSE gen)
    /\ UNCHANGED <<redis, chatVars, generated_content, quotes, job, response, njobs, produced>>

\* what the LLM replies during a job: well-formed replies in the language
\* asked for, text without the markers, or errors
LlmModes == {"up", "garbled", "down"}

LlmReply(llm, kind, language) ==
    IF llm = "down" THEN LlmError
    ELSE IF llm = "garbled" THEN <<<<"t", "e", "x", "t">>>>
    ELSE IF kind = "article"
    THEN <<(IF language = "en" THEN TitleMarkerEn ELSE TitleMarkerRu) \o <<" ", "a">>,
           (IF language = "en" THEN ContentMarkerEn ELSE ContentMarkerRu) \o <<" ", "b">>>>
    ELSE <<(IF language = "en" THEN QuoteMarkerEn ELSE QuoteMarkerRu) \o <<" ", "q">>,
           (IF language = "en" THEN AuthorMarkerEn ELSE AuthorMarkerRu) \o <<" ", "w">>>>

\* a job starts: one more, within the bound
StartJob == job = NoJob /\ njobs < MaxJobs /\ njobs' = njobs + 1

Job(path, content_type, topic, language, llm, topics) ==
    [path |-> path, pc |-> "articles", content_type |-> content_type, topic |-> topic,
     language |-> language, llm |-> llm, topics |-> topics, popular |-> topics,
     articles |-> <<>>, quotes |-> <<>>]

\* the Redis keys of content; every key is of one day, which is left out
ArticleLangKey(topic, language, approach) ==
    <<"article:">> \o topic \o <<":", language, ":", approach>>
ArticleKey(topic, approach) == <<"article:">> \o topic \o <<":", approach>>
QuoteLangKey(topic, language) == <<"quote:">> \o topic \o <<":", language>>
QuoteKey(topic) == <<"quote:">> \o topic
BlobKey(path) ==
    IF path = "daily" THEN <<"daily_content:">>
    ELSE IF path = "all" THEN <<"all_topics_content:">>
    ELSE <<"initial_content">>

\* the elements of a sequence
Range(f) == {f[i] : i \in DOMAIN f}

\* database.py lines 221-229, save_generated_content for each article, as its
\* callers do with source_topics = [topic.lower()]
SaveGeneratedContent(rows, articles, topic) ==
    rows \cup {[content_type |-> "article", title |-> a.title, content |-> a.content,
                source_topics |-> <<Lower(topic)>>, approach |-> a.approach]
               : a \in Range(articles)}

\* database.py lines 369-377, save_quote, when _generate_quote saved its quote
SaveQuote(rows, q, language) ==
    IF q.saved
    THEN rows \cup {[text |-> q.quote.text, author |-> q.quote.author, topic |-> q.quote.topic,
                     language |-> language, is_generated |-> TRUE]}
    ELSE rows

ContentTtl == 86400

\* redis_client.setex for each article of a list in turn, under the key of
\* the same index in keys: the last article written under a key stays
CacheArticles(r, articles, keys) ==
    LET last(k) == CHOOSE i \in DOMAIN articles :
                       /\ keys[i] = k
                       /\ \A j \in DOMAIN articles : keys[j] = k => j <= i
    IN  [k \in Range(keys) |-> [val |-> articles[last(k)], ttl |-> ContentTtl]] @@ r

Produced(p, articles, qs) ==
    [articles |-> p.articles \cup Range(articles), quotes |-> p.quotes \cup Range(qs)]

\* a response of POST /content/generate
Response(status, articles, quote) == [status |-> status, articles |-> articles, quote |-> quote]

\* POST /content/generate, main.py lines 514-541 and 567-582.  A quote is
\* generated and returned at once (lines 537-539, 541, 560-563); for articles
\* the handler calls _generate_multiple_articles (line 535); without a topic
\* the call of generate_content_from_chats (line 571) passes a keyword the
\* method does not take, and the TypeError gives status 500 (lines 578-582)
PostContentGenerate(content_type, topic, language, llm) ==
    /\ StartJob
    /\ IF ~Truthy(topic)
       THEN /\ response' = Response(500, <<>>, <<>>)
            /\ UNCHANGED <<job, gen, quotes, produced>>
       ELSE IF content_type = "article"
       THEN /\ job' = Job("post", content_type, topic, language, llm, <<>>)
            /\ gen' = GenCall(topic, language)
            /\ UNCHANGED <<response, quotes, produced>>
       ELSE IF content_type = "quote"
       THEN LET q == GenerateQuote(topic, language, LlmReply(llm, "quote", language), <<>>)
            IN  /\ quotes' = SaveQuote(quotes, q, language)
                /\ response' = Response(200, <<>>, <<q.quote>>)
                /\ produced' = Produced(produced, <<>>, <<q.quote>>)
                /\ UNCHANGED <<job, gen>>
       ELSE /\ response' = Response(400, <<>>, <<>>)
            /\ UNCHANGED <<job, gen, quotes, produced>>
    /\ UNCHANGED <<redis, chatVars, generated_content>>

\* POST /content/generate, main.py lines 536 and 543-566: the articles are
\* saved in table generated_content and returned
PostContentFinish ==
    /\ job.path = "post"
    /\ gen.pc = "returned"
    /\ LET content == gen.articles
       IN  /\ IF content # <<>>
              THEN /\ generated_content' =
                          SaveGeneratedContent(generated_content, content, job.topic)
                   /\ response' = Response(200, content, <<>>)
              ELSE /\ response' = Response(500, <<>>, <<>>)
                   /\ UNCHANGED generated_content
           /\ produced' = Produced(produced, content, <<>>)
    /\ job' = NoJob
    /\ gen' = NoGen
    /\ UNCHANGED <<redis, chatVars, quotes, njobs>>

\* generate_content_for_topic, tasks.py lines 276-288 and 322-343: a quote is
\* generated and cached at once; for articles the task calls
\* _generate_multiple_articles; another content type is an error
GenerateContentForTopic(topic, content_type, language, llm) ==
    /\ StartJob
    /\ IF content_type = "article"
       THEN /\ job' = Job("topic", content_type, topic, language, llm, <<>>)
            /\ gen' = GenCall(topic, language)
            /\ UNCHANGED <<redis, quotes, produced>>
       ELSE IF content_type = "quote"
       THEN LET q == GenerateQuote(topic, language, LlmReply(llm, "quote", language), <<>>)
            IN  /\ quotes' = SaveQuote(quotes, q, language)
                /\ redis' = SetEx(redis, QuoteLangKey(topic, language), ContentTtl, q.quote)
                /\ produced' = Produced(produced, <<>>, <<q.quote>>)
                /\ UNCHANGED <<job, gen>>
       ELSE UNCHANGED <<job, gen, redis, quotes, produced>>
    /\ UNCHANGED <<chatVars, generated_content, response>>

\* generate_content_for_topic, tasks.py lines 290-320: each article is cached
\* and saved in table generated_content
GenerateContentForTopicFinish ==
    /\ job.path = "topic"
    /\ gen.pc = "returned"
    /\ LET articles == gen.articles
           key == [i \in DOMAIN articles |->
                      ArticleLangKey(job.topic, job.language, articles[i].approach)]
       IN  /\ redis' = CacheArticles(redis, articles, key)
           /\ generated_content' = SaveGeneratedContent(generated_content, articles, job.topic)
           /\ produced' = Produced(produced, articles, <<>>)
    /\ job' = NoJob
    /\ gen' = NoGen
    /\ UNCHANGED <<chatVars, quotes, response, njobs>>

\* generate_daily_content, tasks.py lines 392-414: the popular topics are
\* read and the articles of the first one asked for, in the default language
GenerateDailyContent(popular, llm) ==
    /\ StartJob
    /\ IF popular = <<>>
       THEN /\ job' = [Job("daily", "", None, "ru", llm, popular) EXCEPT !.pc = "cache"]
            /\ UNCHANGED gen
       ELSE /\ job' = Job("daily", "", None, "ru", llm, popular)
            /\ gen' = GenCall(popular[1], "ru")
    /\ UNCHANGED <<redis, chatVars, generated_content, quotes, response, produced>>

\* generate_daily_content, tasks.py lines 415-447: the articles of a topic are
\* cached and saved, a quote for the topic is generated and cached; after the
\* last topic generate_content_from_chats (line 451) starts on the first topic
DailyArticles ==
    /\ job.path = "daily" /\ job.pc = "articles"
    /\ gen.pc = "returned"
    /\ LET topic == Head(job.topics)
           articles == gen.articles
           key == [i \in DOMAIN articles |-> ArticleKey(topic, articles[i].approach)]
           q == GenerateQuote(topic, "ru", LlmReply(job.llm, "quote", "ru"), job.popular)
           last == Len(job.topics) = 1
       IN  /\ redis' = SetEx(CacheArticles(redis, articles, key),
                             QuoteKey(topic), ContentTtl, q.quote)
           /\ generated_content' = SaveGeneratedContent(generated_content, articles, topic)
           /\ quotes' = SaveQuote(quotes, q, "ru")
           /\ produced' = Produced(produced, articles, <<q.quote>>)
           /\ job' = [job EXCEPT !.articles = @ \o articles,
                                 !.quotes = Append(@, q.quote),
                                 !.topics = IF last THEN job.popular ELSE Tail(@),
                                 !.pc = IF last THEN "general" ELSE "articles"]
           /\ gen' = GenCall(IF last THEN job.popular[1] ELSE job.topics[2], "ru")
    /\ UNCHANGED <<chatVars, response, njobs>>

\* generate_content_from_chats called by generate_daily_content,
\* content_generator.py lines 16-44 and tasks.py lines 451-452: three more
\* articles per popular topic, added to the list of the day
DailyGeneral ==
    /\ job.path = "daily" /\ job.pc = "general"
    /\ gen.pc = "returned"
    /\ LET last == Len(job.topics) = 1
       IN  /\ job' = [job EXCEPT !.articles = @ \o gen.articles,
                                 !.topics = Tail(@),
                                 !.pc = IF last THEN "cache" ELSE "general"]
           /\ gen' = IF last THEN NoGen ELSE GenCall(job.topics[2], "ru")
    /\ produced' = Produced(produced, gen.articles, <<>>)
    /\ UNCHANGED <<redis, chatVars, generated_content, quotes, response, njobs>>

\* generate_content_for_all_topics, tasks.py lines 518-546: the topics are
\* read and the articles of the first one asked for
GenerateContentForAllTopics(all_topics, llm) ==
    /\ StartJob
    /\ IF all_topics = <<>>
       THEN /\ job' = [Job("all", "", None, "ru", llm, all_topics) EXCEPT !.pc = "cache"]
            /\ UNCHANGED gen
       ELSE /\ job' = Job("all", "", None, "ru", llm, all_topics)
            /\ gen' = GenCall(all_topics[1], "ru")
    /\ UNCHANGED <<redis, chatVars, generated_content, quotes, response, produced>>

\* generate_content_for_all_topics, tasks.py lines 547-568: the articles of a
\* topic are cached, a quote for the topic is generated and cached
AllTopicsArticles ==
    /\ job.path = "all" /\ job.pc = "articles"
    /\ gen.pc = "returned"
    /\ LET topic == Head(job.topics)
           articles == gen.articles
           key == [i \in DOMAIN articles |-> ArticleKey(topic, articles[i].approach)]
           q == GenerateQuote(topic, "ru", LlmReply(job.llm, "quote", "ru"), job.popular)
           last == Len(job.topics) = 1
       IN  /\ redis' = SetEx(CacheArticles(redis, articles, key),
                             QuoteKey(topic), ContentTtl, q.quote)
           /\ quotes' = SaveQuote(quotes, q, "ru")
           /\ produced' = Produced(produced, articles, <<q.quote>>)
           /\ job' = [job EXCEPT !.articles = @ \o articles,
                                 !.quotes = Append(@, q.quote),
                                 !.topics = Tail(@),
                                 !.pc = IF last THEN "cache" ELSE "articles"]
           /\ gen' = IF last THEN NoGen ELSE GenCall(job.topics[2], "ru")
    /\ UNCHANGED <<chatVars, generated_content, response, njobs>>

\* "стресс", "тревога", "мотивация", "уверенность", "отношения", "здоровье",
\* tasks.py line 610
CommonTopics == <<
    <<"ru_s", "ru_t", "ru_r", "ru_e", "ru_s", "ru_s">>,
    <<"ru_t", "ru_r", "ru_e", "ru_v", "ru_o", "ru_g", "ru_a">>,
    MotivationRu,
    <<"ru_u", "ru_v", "ru_e", "ru_r", "ru_e", "ru_n", "ru_n", "ru_o", "ru_s", "ru_t", "ru_soft">>,
    <<"ru_o", "ru_t", "ru_n", "ru_o", "ru_sh", "ru_e", "ru_n", "ru_i", "ru_ya">>,
    <<"ru_z", "ru_d", "ru_o", "ru_r", "ru_o", "ru_v", "ru_soft", "ru_e">> >>

\* generate_initial_random_content, tasks.py lines 587-617: table quotes is
\* not empty (line 604), the articles of the first common topic are asked for
GenerateInitialRandomContent(llm) ==
    /\ StartJob
    /\ job' = Job("initial", "", None, "ru", llm, CommonTopics)
    /\ gen' = GenCall(CommonTopics[1], "ru")
    /\ UNCHANGED <<redis, chatVars, generated_content, quotes, response, produced>>

\* generate_initial_random_content, tasks.py lines 617-624: the articles of a
\* topic are added to the list
InitialArticles ==
    /\ job.path = "initial" /\ job.pc = "articles"
    /\ gen.pc = "returned"
    /\ LET last == Len(job.topics) = 1
       IN  /\ job' = [job EXCEPT !.articles = @ \o gen.articles,
                                 !.topics = Tail(@),
                                 !.pc = IF last THEN "cache" ELSE "articles"]
           /\ gen' = IF last THEN NoGen ELSE GenCall(job.topics[2], "ru")
    /\ produced' = Produced(produced, gen.articles, <<>>)
    /\ UNCHANGED <<redis, chatVars, generated_content, quotes, response, njobs>>

\* tasks.py lines 455-464, 570-572 and 627-634: the lists of the task are
\* cached under the key of the task, and the task returns
CacheContent ==
    /\ job.pc = "cache"
    /\ redis' = SetEx(redis, BlobKey(job.path), ContentTtl,
                      [articles |-> job.articles, quotes |-> job.quotes,
                       topics_processed |-> job.popular])
    /\ job' = NoJob
    /\ UNCHANGED <<chatVars, generated_content, quotes, gen, response, njobs, produced>>

(***************************************************************************)
(* SpecArticles: the handler of POST /content/generate?content_type=article *)
(* has called _generate_multiple_articles for a topic; every attempt gets  *)
(* every reply of ArticleReplies or an error of the LLM.                   *)
(***************************************************************************)
\* number of lines of a reply
MaxLines == 3

\* the lines: a title, a content after a blank, a title marker with nothing
\* after it, and text without a marker
ArticleLines(language) == {
    (IF language = "en" THEN TitleMarkerEn ELSE TitleMarkerRu) \o <<" ", "a">>,
    <<" ">> \o (IF language = "en" THEN ContentMarkerEn ELSE ContentMarkerRu) \o <<" ", "b">>,
    (IF language = "en" THEN TitleMarkerEn ELSE TitleMarkerRu) \o <<" ">>,
    <<"t", "e", "x", "t">> }

RECURSIVE LinesUpTo(_, _)
LinesUpTo(n, language) ==
    IF n = 0 THEN {<<>>}
    ELSE LET shorter == LinesUpTo(n - 1, language)
         IN  shorter \cup {Append(r, l) : r \in shorter, l \in ArticleLines(language)}

\* per language of the request, the replies and the error of the call
ArticleReplies == [language \in Languages |-> LinesUpTo(MaxLines, language) \cup {LlmError}]

ArticleTopics == {<<"s", "l", "e", "e", "p">>, <<"J", "o", "y">>}

InitArticles ==
    /\ redis = <<>>
    /\ user_topics = <<>>
    /\ conversations = {}
    /\ user_sessions = {}
    /\ tasks = EmptyBag
    /\ content_tasks = {}
    /\ web = Idle
    /\ client_language \in Languages
    /\ nevents = 0
    /\ msgs = <<>>
    /\ deleted = [u \in Users |-> "never"]
    /\ refreshed = [u \in Users |-> "never"]
    /\ generated_content = {}
    /\ quotes = DefaultQuotes
    /\ \E topic \in ArticleTopics :
          /\ job = Job("post", "article", topic, client_language, "any", <<>>)
          /\ gen = GenCall(topic, client_language)
    /\ response = NoResponse
    /\ njobs = MaxJobs
    /\ produced = [articles |-> {}, quotes |-> {}]
    /\ InitYouTube(TRUE)
    /\ InitHistory

NextArticles ==
    \/ \E reply \in ArticleReplies[client_language] : GenAttempt(reply)
    \/ GenFallback
    \/ PostContentFinish

SpecArticles == InitArticles /\ [][NextArticles]_vars

\* the approaches of a list of articles, in the order of the list
ApproachesOf(articles) == [i \in DOMAIN articles |-> articles[i].approach]

\* C7: _generate_multiple_articles returns exactly three articles, of the
\* approaches practical, theoretical and motivational in this order, whatever
\* the LLM replied or raised at each attempt; and the response of POST
\* /content/generate?content_type=article&topic=T carries these three articles
C7_ThreeArticles ==
    /\ gen.pc = "returned" => ApproachesOf(gen.articles) = Approaches
    /\ (njobs > 0 /\ job = NoJob) =>
           /\ response.status = 200
           /\ ApproachesOf(response.articles) = Approaches

\* a request answered with a generated article, after a failed attempt, and
\* a fallback article
C7_Witness ==
    /\ njobs > 0 /\ job = NoJob
    /\ response.status = 200
    /\ \E i, j \in DOMAIN response.articles :
          /\ response.articles[i].is_fallback
          /\ ~response.articles[j].is_fallback

\* the attempts of the call in progress for an approach, and the articles
\* returned so far for it
AttemptsOf(approach) == SelectSeq(gen.log, LAMBDA e : e.approach = approach)
ArticlesOf(approach) == SelectSeq(gen.articles, LAMBDA a : a.approach = approach)

\* the call has left the approach behind
Finished(approach) ==
    \/ gen.pc = "returned"
    \/ \E k \in 1..Len(Approaches) : Approaches[k] = approach /\ k < gen.i

\* C18: for each approach _generate_multiple_articles makes at most 3
\* attempts, none after the first that yields a parsed article, and appends
\* a fallback article exactly when all 3 attempts failed; one call makes at
\* most 9 completions
C18_AttemptsAndFallback ==
    /\ Len(gen.log) <= 9
    /\ gen.calls = Len(gen.log)
    /\ \A k \in 1..Len(Approaches) :
          LET attempts == AttemptsOf(Approaches[k])
              articles == ArticlesOf(Approaches[k])
              failed == Len(attempts) = 3 /\ \A n \in 1..3 : ~attempts[n].parsed
          IN  /\ Len(attempts) <= 3
              /\ \A n \in 1..Len(attempts) : attempts[n].parsed => n = Len(attempts)
              /\ Len(articles) <= 1
              /\ \A n \in 1..Len(articles) : articles[n].is_fallback <=> failed
              /\ Finished(Approaches[k]) => (failed <=> Len(articles) = 1 /\ articles[1].is_fallback)
              /\ Finished(Approaches[k]) /\ ~failed =>
                    /\ Len(articles) = 1
                    /\ attempts # <<>>
                    /\ attempts[Len(attempts)].parsed

\* a call returned after 7 completions: a fallback for the first approach, an
\* article parsed at the third attempt for the second, one at the first
\* attempt for the third
C18_Witness ==
    /\ gen.pc = "returned"
    /\ Len(gen.log) = 7
    /\ Len(gen.articles) = 3
    /\ gen.articles[1].is_fallback
    /\ ~gen.articles[2].is_fallback
    /\ ~gen.articles[3].is_fallback

(***************************************************************************)
(* SpecContent: the content-generation tasks and POST /content/generate,   *)
(* started on an empty cache and empty table generated_content; during a   *)
(* job the LLM answers in one of LlmModes.                                 *)
(***************************************************************************)
ContentTypes == {"article", "quote", "video"}

\* results of db.get_popular_topics and db.get_all_topics
TopicLists == {<<>>, <<<<"s", "l", "e", "e", "p">>>>, <<<<"J", "o", "y">>, <<"s", "l", "e", "e", "p">>>>}

NextContent ==
    \/ \E content_type \in ContentTypes, topic \in ArticleTopics \cup {None},
          language \in Languages, llm \in LlmModes :
          PostContentGenerate(content_type, topic, language, llm)
    \/ PostContentFinish
    \/ \E content_type \in ContentTypes, topic \in ArticleTopics,
          language \in Languages, llm \in LlmModes :
          GenerateContentForTopic(topic, content_type, language, llm)
    \/ GenerateContentForTopicFinish
    \/ \E popular \in TopicLists, llm \in LlmModes : GenerateDailyContent(popular, llm)
    \/ DailyArticles
    \/ DailyGeneral
    \/ \E all_topics \in TopicLists, llm \in LlmModes :
          GenerateContentForAllTopics(all_topics, llm)
    \/ AllTopicsArticles
    \/ \E llm \in LlmModes : GenerateInitialRandomContent(llm)
    \/ InitialArticles
    \/ CacheContent
    \/ GenAttempt(LlmReply(job.llm, "article", gen.language))
    \/ GenFallback

SpecContent == Init /\ [][NextContent]_vars

\* an article is a row of table generated_content
SavedArticle(a) ==
    \E row \in generated_content :
        row.title = a.title /\ row.content = a.content /\ row.approach = a.approach

\* a quote is a row of table quotes
SavedQuote(q) ==
    \E row \in quotes : row.text = q.text /\ row.author = q.author /\ row.topic = q.topic

\* the keys of Redis that hold one article, one quote, the lists of a task
KeysOf(prefixes) == {k \in DOMAIN redis : k[1] \in prefixes /\ redis[k].ttl > 0}

\* an article is in Redis under a key with a time-to-live, alone or in a list
CachedArticle(a) ==
    \/ \E k \in KeysOf({"article:"}) : redis[k].val = a
    \/ \E k \in KeysOf({"daily_content:", "all_topics_content:", "initial_content"}) :
          a \in Range(redis[k].val.articles)

\* a quote is in Redis under a key with a time-to-live, alone or in a list
CachedQuote(q) ==
    \/ \E k \in KeysOf({"quote:"}) : redis[k].val = q
    \/ \E k \in KeysOf({"daily_content:", "all_topics_content:", "initial_content"}) :
          q \in Range(redis[k].val.quotes)

\* C4: when a content-generation path has finished, every article and quote
\* it obtained from the LLM is a row of its SQL table and is in Redis under
\* a key with a time-to-live
C4_ContentSavedAndCached ==
    job = NoJob =>
        /\ \A a \in produced.articles : ~a.is_fallback => SavedArticle(a) /\ CachedArticle(a)
        /\ \A q \in produced.quotes : q.is_generated => SavedQuote(q) /\ CachedQuote(q)

\* POST /content/generate?content_type=article without a topic
PostArticlesOfPopularTopics ==
    \E language \in Languages, llm \in LlmModes :
        PostContentGenerate("article", None, language, llm)

\* C13: POST /content/generate with content_type=article and no topic is
\* answered 200 with the list of the articles generated from the popular
\* topics, in every language
C13_GeneralArticlesAnswered ==
    [][PostArticlesOfPopularTopics =>
          /\ response'.status = 200
          /\ response'.quote = <<>>]_vars

(***************************************************************************)
(* SpecQuote: requests GET /content/daily-quote, with every reply of       *)
(* QuoteReplies or an error of the LLM, in every language of               *)
(* TopicLanguages.                                                         *)
(***************************************************************************)
\* number of requests in a run
MaxRequests == 2

\* number of lines of a reply to the quote prompt
MaxQuoteLines == 2

\* the hard-coded quote of get_daily_quote, content_generator.py lines 364-394
HardCodedQuote(language) ==
    LET lang == IF language = "en" THEN "en" ELSE "ru"
    IN  [text |-> <<"Gandhi quote " \o lang>>, author |-> <<"Gandhi " \o lang>>,
         topic |-> IF language = "en" THEN MotivationEn ELSE MotivationRu,
         is_generated |-> FALSE]

\* Database.get_daily_quote, database.py lines 413-450: the quotes of the
\* language; the day of the year selects one of them
QuotesOfLanguage(table, language) == {row \in table : row.language = language}

\* ContentGenerator.get_daily_quote, content_generator.py lines 335-395: the
\* quote returned and the table quotes after the call.  roll is
\* random.random() < 0.3; row is the row the day selects, for a table with
\* quotes of the language
GetDailyQuote(table, language, reply, roll, popular, row) ==
    LET g == GenerateQuote(None, language, reply, popular)
    IN  IF roll /\ g.quote.text # <<>>
        THEN [quote |-> g.quote, table |-> SaveQuote(table, g, language)]
        ELSE IF QuotesOfLanguage(table, language) # {}
        THEN [quote |-> [text |-> row.text, author |-> row.author, topic |-> row.topic,
                         is_generated |-> row.is_generated],
              table |-> IF roll THEN SaveQuote(table, g, language) ELSE table]
        ELSE [quote |-> HardCodedQuote(language),
              table |-> IF roll THEN SaveQuote(table, g, language) ELSE table]

\* GET /content/daily-quote, main.py lines 299-349: with a topic the quote of
\* the topic cached for the day, else a quote generated for the topic and
\* cached; without a topic the quote of ContentGenerator.get_daily_quote
DailyQuoteEndpoint(language, topic, reply, roll, popular, row) ==
    /\ job = NoJob
    /\ njobs < MaxRequests
    /\ njobs' = njobs + 1
    /\ IF Truthy(topic)
       THEN LET cache_key == QuoteLangKey(topic, language)
                q == GenerateQuote(topic, language, reply, popular)
            IN  IF cache_key \in DOMAIN redis
                THEN /\ response' = Response(200, <<>>, <<redis[cache_key].val>>)
                     /\ UNCHANGED <<redis, quotes>>
                ELSE /\ quotes' = SaveQuote(quotes, q, language)
                     /\ redis' = SetEx(redis, cache_key, ContentTtl, q.quote)
                     /\ response' = Response(200, <<>>, <<q.quote>>)
       ELSE LET d == GetDailyQuote(quotes, language, reply, roll, popular, row)
            IN  /\ quotes' = d.table
                /\ response' = Response(200, <<>>, <<d.quote>>)
                /\ UNCHANGED redis
    /\ UNCHANGED <<chatVars, generated_content, job, gen, produced>>

\* the lines: a quote, an author, the markers with nothing after them, and
\* text without a marker
QuoteLines(language) == {
    (IF language = "en" THEN QuoteMarkerEn ELSE QuoteMarkerRu) \o <<" ", "q">>,
    (IF language = "en" THEN AuthorMarkerEn ELSE AuthorMarkerRu) \o <<" ", "w">>,
    (IF language = "en" THEN QuoteMarkerEn ELSE QuoteMarkerRu) \o <<" ">>,
    (IF language = "en" THEN AuthorMarkerEn ELSE AuthorMarkerRu),
    <<"t", "e", "x", "t">> }

RECURSIVE QuoteLinesUpTo(_, _)
QuoteLinesUpTo(n, language) ==
    IF n = 0 THEN {<<>>}
    ELSE LET shorter == QuoteLinesUpTo(n - 1, language)
         IN  shorter \cup {Append(r, l) : r \in shorter, l \in QuoteLines(language)}

\* per language of the request, the replies and the error of the call
QuoteReplies ==
    [language \in {"ru", "en", "kk"} |-> QuoteLinesUpTo(MaxQuoteLines, language) \cup {LlmError}]

NextQuote ==
    \E language \in {"ru", "en", "kk"}, topic \in ArticleTopics \cup {None},
       roll \in BOOLEAN, popular \in {<<>>, <<<<"J", "o", "y">>>>} :
        \E reply \in QuoteReplies[language] :
            \E row \in IF QuotesOfLanguage(quotes, language) = {}
                        THEN {HardCodedQuote(language)}
                        ELSE QuotesOfLanguage(quotes, language) :
                DailyQuoteEndpoint(language, topic, reply, roll, popular, row)

SpecQuote == Init /\ [][NextQuote]_vars

\* C11: every response of GET /content/daily-quote, with or without a topic,
\* carries a quote with non-empty text and non-empty author, whatever the
\* LLM replied or raised and whether or not table quotes holds a quote of
\* the requested language
C11_DailyQuoteHasTextAndAuthor ==
    njobs > 0 =>
        /\ response.status = 200
        /\ Len(response.quote) = 1
        /\ response.quote[1].text # <<>>
        /\ response.quote[1].author # <<>>

(***************************************************************************)
(* SpecTopic: one extract_topic_from_message task run on every reply of    *)
(* TopicReplies, in every language of TopicLanguages.                      *)
(***************************************************************************)
\* number of pieces a reply is made of
MaxPieces == 3

Repeat(c, n) == [i \in 1..n |-> c]

\* the pieces: the two markers, halves of them, blanks and quotes, a word,
\* a word of the empty-topic list, and 29 letters
Pieces == {
    TopicMarkerEn, TopicMarkerRu,
    <<"T", "O">>, <<"P", "I", "C", ":">>,
    <<"RU_T", "RU_E">>, <<"RU_M", "RU_A", ":">>,
    <<" ">>, <<"\"">>, <<"'">>,
    <<"s", "t", "r", "e", "s", "s">>,
    <<"N", "o", "n", "e">>,
    Repeat("x", TopicMaxLen - 1) }

RECURSIVE RepliesUpTo(_)
RepliesUpTo(n) ==
    IF n = 0 THEN {<<>>}
    ELSE LET shorter == RepliesUpTo(n - 1)
         IN  shorter \cup {r \o p : r \in shorter, p \in Pieces}

TopicReplies == RepliesUpTo(MaxPieces)

\* "ru", "en" and a language the prompts do not know
TopicLanguages == {"ru", "en", "kk"}

InitTopic ==
    /\ redis = <<>>
    /\ user_topics = <<>>
    /\ conversations = {"u1"}
    /\ user_sessions = {"u1"}
    /\ client_language \in TopicLanguages
    /\ tasks = SetToBag({Task("extract", "u1", client_language, 1)})
    /\ content_tasks = {}
    /\ web = Idle
    /\ nevents = 0
    /\ msgs = <<[user |-> "u1", lang |-> client_language, quiet |-> TRUE,
                 verdict |-> "pending", topic |-> None]>>
    /\ deleted = [u \in Users |-> "never"]
    /\ refreshed = [u \in Users |-> "never"]
    /\ InitContent
    /\ InitYouTube(TRUE)
    /\ InitHistory

NextTopic ==
    /\ \E t \in BagToSet(tasks) :
          \/ ExtractCache(t, TopicReplies)
          \/ ExtractReadPrevious(t)
          \/ ExtractUpdate(t)
          \/ \E different \in BOOLEAN : ExtractFinish(t, different)
    /\ UNCHANGED contentVars

SpecTopic == InitTopic /\ [][NextTopic]_vars

\* a topic as the claim describes it
WellFormedTopic(s) ==
    /\ s # <<>>
    /\ s # None
    /\ Len(s) <= TopicMaxLen
    /\ ~Contains(s, TopicMarkerRu)
    /\ ~Contains(s, TopicMarkerEn)

\* C10: the topic extract_topic_from_message stores in the cache and in
\* user_topics is non-empty, at most 30 characters long and contains neither
\* marker; a reply that is empty, blank or only the marker of the language
\* yields the default topic of the language.
C10_StoredTopicWellFormed ==
    /\ \A u \in Users :
          /\ TopicKey(u) \in DOMAIN redis => WellFormedTopic(redis[TopicKey(u)].val)
          /\ u \in DOMAIN user_topics => WellFormedTopic(user_topics[u])
    /\ \A t \in BagToSet(tasks) :
          (/\ t.kind = "extract" /\ t.pc # "start"
           /\ Strip(t.reply) \in {<<>>, IF t.lang = "en" THEN TopicMarkerEn ELSE TopicMarkerRu})
          => t.topic = DefaultTopic(t.lang)

(***************************************************************************)
(* YouTubeService (youtube_service.py): the video cache and the back-off   *)
(* after a quota error.  Times are in hours.                               *)
(***************************************************************************)
CacheDurationHours == 24
QuotaRetryIntervalHours == 6
MaxQuotaRetries == 2
ExtendedRetryIntervalHours == 18

\* the clock runs to MaxTime, in steps of TickHours
MaxTime == 24
TickHours == 6

\* f"{query}:{language}:{max_results}"
CacheKey(query, language, max_results) ==
    query \o <<":", language, ":", max_results>>

\* the age test with <= in place of <
FreshInclusive(yt, key, t) ==
    /\ key \in DOMAIN yt.cache
    /\ t - yt.cache[key].timestamp <= CacheDurationHours

\* the entry under key is less than 24 hours old at time t
Fresh(yt, key, t) ==
    /\ key \in DOMAIN yt.cache
    /\ t - yt.cache[key].timestamp < CacheDurationHours

\* retry_interval without the extended interval
RetryIntervalInitial(yt) == QuotaRetryIntervalHours

\* retry_interval of search_videos
RetryInterval(yt) ==
    IF yt.quota_exceeded_count >= MaxQuotaRetries
    THEN ExtendedRetryIntervalHours
    ELSE QuotaRetryIntervalHours

\* search_videos returns [] because of a recent quota error
Backoff(yt, t) ==
    /\ yt.quota_exceeded_time # NoTime
    /\ t - yt.quota_exceeded_time < RetryInterval(yt)

\* a video dict; formatted_duration is None until the endpoint sets the key
Video(id, duration) == [id |-> id, duration |-> duration, formatted_duration |-> None]

\* what the YouTube API can answer to a search that reaches it: videos whose
\* details were found (possibly none), a quotaExceeded HttpError, another error
ApiOutcomes ==
    {[kind |-> "videos", videos |-> <<>>],
     [kind |-> "videos", videos |-> <<Video("v1", <<"P", "T", "8", "M", "3", "0", "S">>)>>],
     [kind |-> "videos", videos |-> <<Video("v2", <<"P", "T", "1", "H", "5", "M">>),
                                      Video("v3", <<"P", "1", "D">>)>>],
     [kind |-> "quotaExceeded", videos |-> <<>>],
     [kind |-> "error", videos |-> <<>>]}

\* lines 102-106: the list is cached with the time of the call
CacheVideos(yt, cache_key, videos, t) ==
    [yt EXCEPT !.cache = (cache_key :> [videos |-> videos, timestamp |-> t]) @@ @]

\* lines 109-112 without line 113
ResetQuotaExceededCountOnly(yt) ==
    IF yt.quota_exceeded_count > 0
    THEN [yt EXCEPT !.quota_exceeded_count = 0]
    ELSE yt

\* lines 109-113: a search that found videos ends the back-off
ResetQuotaExceeded(yt) ==
    IF yt.quota_exceeded_count > 0
    THEN [yt EXCEPT !.quota_exceeded_count = 0, !.quota_exceeded_time = NoTime]
    ELSE yt

\* lines 118-120: a quotaExceeded error at time t
RecordQuotaExceeded(yt, t) ==
    [yt EXCEPT !.quota_exceeded_count = @ + 1, !.quota_exceeded_time = t]

\* search_videos(query, max_results, language) at time t, the API answering
\* outcome if the call reaches it: the object afterwards, the list returned,
\* whether the API was called, whether the call went past the cache
SearchVideosCall(yt, query, max_results, language, outcome, t) ==
    LET cache_key == CacheKey(query, language, max_results)
        Return(obj, result, api, fresh) ==
            [youtube |-> obj, key |-> cache_key, result |-> result,
             api |-> api, fresh |-> fresh]
    IN  IF ~yt.youtube THEN Return(yt, <<>>, FALSE, FALSE)
        ELSE IF Fresh(yt, cache_key, t)
        THEN Return(yt, yt.cache[cache_key].videos, FALSE, TRUE)
        ELSE IF Backoff(yt, t) THEN Return(yt, <<>>, FALSE, FALSE)
        ELSE IF outcome.kind = "videos" /\ outcome.videos # <<>>
        THEN Return(ResetQuotaExceeded(CacheVideos(yt, cache_key, outcome.videos, t)),
                    outcome.videos, TRUE, FALSE)
        ELSE IF outcome.kind = "quotaExceeded"
        THEN Return(RecordQuotaExceeded(yt, t), <<>>, TRUE, FALSE)
        ELSE Return(yt, <<>>, TRUE, FALSE)

\* the histories after a search_videos call r made at time t
QuotaAt(r, outcome, t) ==
    IF r.api /\ outcome.kind = "quotaExceeded" THEN t ELSE quota_at
Forced(r, outcome) ==
    [forced EXCEPT !.armed = @ /\ r.fresh,
                   !.since = @ /\ ~(r.api /\ outcome.kind = "quotaExceeded")]
Stores(r, videos, t) ==
    IF r.api /\ r.result # <<>>
    THEN (r.key :> [videos |-> videos, at |-> t, cleared |-> FALSE]) @@ stores
    ELSE stores

\* a call of search_videos by code other than the endpoint (tasks.py:365)
SearchVideos(query, max_results, outcome) ==
    LET r == SearchVideosCall(youtube, query, max_results, client_language, outcome, now)
    IN  /\ youtube' = r.youtube
        /\ search' = [key |-> r.key, result |-> r.result, api |-> r.api]
        /\ quota_at' = QuotaAt(r, outcome, now)
        /\ stores' = Stores(r, r.result, now)
        /\ forced' = Forced(r, outcome)
        /\ UNCHANGED <<redis, user_topics, conversations, user_sessions, tasks,
                       content_tasks, web, client_language, nevents, msgs, deleted,
                       refreshed, generated_content, quotes, job, gen, response,
                       njobs, produced, now, videos_response, historyVars>>

\* clear_cache
ClearCache ==
    /\ youtube' = [youtube EXCEPT !.cache = <<>>]
    /\ stores' = [k \in DOMAIN stores |-> [stores[k] EXCEPT !.cleared = TRUE]]
    /\ UNCHANGED <<redis, user_topics, conversations, user_sessions, tasks,
                   content_tasks, web, client_language, nevents, msgs, deleted,
                   refreshed, generated_content, quotes, job, gen, response,
                   njobs, produced, now, search, videos_response, quota_at,
                   forced, historyVars>>

\* force_retry_youtube_api without line 504
ForceRetryKeepsCount ==
    /\ youtube' = [youtube EXCEPT !.quota_exceeded_time = NoTime]
    /\ forced' = [armed |-> TRUE, backoff |-> Backoff(youtube, now), since |-> TRUE]
    /\ UNCHANGED <<redis, user_topics, conversations, user_sessions, tasks,
                   content_tasks, web, client_language, nevents, msgs, deleted,
                   refreshed, generated_content, quotes, job, gen, response,
                   njobs, produced, now, search, videos_response, quota_at,
                   stores, historyVars>>

\* force_retry_youtube_api
ForceRetryYoutubeApi ==
    /\ youtube' = [youtube EXCEPT !.quota_exceeded_time = NoTime,
                                  !.quota_exceeded_count = 0]
    /\ forced' = [armed |-> TRUE, backoff |-> Backoff(youtube, now), since |-> TRUE]
    /\ UNCHANGED <<redis, user_topics, conversations, user_sessions, tasks,
                   content_tasks, web, client_language, nevents, msgs, deleted,
                   refreshed, generated_content, quotes, job, gen, response,
                   njobs, produced, now, search, videos_response, quota_at,
                   stores, historyVars>>

\* time passes
Tick ==
    /\ now + TickHours <= MaxTime
    /\ now' = now + TickHours
    /\ UNCHANGED <<redis, user_topics, conversations, user_sessions, tasks,
                   content_tasks, web, client_language, nevents, msgs, deleted,
                   refreshed, generated_content, quotes, job, gen, response,
                   njobs, produced, youtube, search, videos_response, quota_at,
                   stores, forced, historyVars>>

(***************************************************************************)
(* GET /content/videos (main.py) with the fallback videos and the duration *)
(* format of youtube_service.py                                            *)
(***************************************************************************)
\* the tables of _get_fallback_videos, in the order of the dict literals
FallbackVideosEn ==
    <<
       [topic |-> <<"s", "t", "r", "e", "s", "s">>,
        videos |-> <<Video("stress_help_1", <<"P", "T", "8", "M", "3", "0", "S">>)>>],
       [topic |-> <<"a", "n", "x", "i", "e", "t", "y">>,
        videos |-> <<Video("anxiety_relief_1", <<"P", "T", "1", "0", "M", "1", "5", "S">>)>>],
       [topic |-> <<"m", "e", "d", "i", "t", "a", "t", "i", "o", "n">>,
        videos |-> <<Video("meditation_guide_1", <<"P", "T", "1", "0", "M", "1", "5", "S">>)>>],
       [topic |-> <<"m", "o", "t", "i", "v", "a", "t", "i", "o", "n">>,
        videos |-> <<Video("motivation_tips_1", <<"P", "T", "1", "2", "M", "4", "5", "S">>)>>],
       [topic |-> <<"r", "e", "l", "a", "t", "i", "o", "n", "s", "h", "i", "p">>,
        videos |-> <<Video("relationship_advice_1", <<"P", "T", "1", "1", "M", "2", "5", "S">>)>>],
       [topic |-> <<"b", "r", "e", "a", "k", "u", "p">>,
        videos |-> <<Video("healing_breakup_1", <<"P", "T", "9", "M", "4", "5", "S">>)>>],
       [topic |-> <<"s", "l", "e", "e", "p">>,
        videos |-> <<Video("sleep_improvement_1", <<"P", "T", "7", "M", "3", "0", "S">>)>>] >>
FallbackVideosRu ==
    <<
       [topic |-> <<"ru_s", "ru_t", "ru_r", "ru_e", "ru_s", "ru_s">>,
        videos |-> <<Video("stress_help_ru_1", <<"P", "T", "8", "M", "3", "0", "S">>)>>],
       [topic |-> <<"ru_t", "ru_r", "ru_e", "ru_v", "ru_o", "ru_g", "ru_a">>,
        videos |-> <<Video("anxiety_relief_ru_1", <<"P", "T", "1", "0", "M", "1", "5", "S">>)>>],
       [topic |-> <<"ru_m", "ru_e", "ru_d", "ru_i", "ru_t", "ru_a", "ru_ts", "ru_i", "ru_ya">>,
        videos |-> <<Video("meditation_ru_1", <<"P", "T", "1", "0", "M", "1", "5", "S">>)>>],
       [topic |-> <<"ru_m", "ru_o", "ru_t", "ru_i", "ru_v", "ru_a", "ru_ts", "ru_i", "ru_ya">>,
        videos |-> <<Video("motivation_ru_1", <<"P", "T", "1", "2", "M", "4", "5", "S">>)>>],
       [topic |-> <<"ru_o", "ru_t", "ru_n", "ru_o", "ru_sh", "ru_e", "ru_n", "ru_i", "ru_ya">>,
        videos |-> <<Video("relationship_advice_ru_1", <<"P", "T", "1", "1", "M", "2", "5", "S">>)>>],
       [topic |-> <<"ru_r", "ru_a", "ru_s", "ru_s", "ru_t", "ru_a", "ru_v", "ru_a", "ru_n", "ru_i", "ru_e">>,
        videos |-> <<Video("healing_breakup_ru_1", <<"P", "T", "9", "M", "4", "5", "S">>)>>],
       [topic |-> <<"ru_s", "ru_o", "ru_n">>,
        videos |-> <<Video("sleep_improvement_ru_1", <<"P", "T", "7", "M", "3", "0", "S">>)>>] >>
DefaultVideoEn == Video("self_help_guide_1", <<"P", "T", "9", "M", "2", "0", "S">>)
DefaultVideoRu == Video("self_help_ru_1", <<"P", "T", "9", "M", "2", "0", "S">>)

\* _get_fallback_videos without its last line: nothing when no topic occurs
GetFallbackVideosNoDefault(query, language) ==
    LET table == IF language = "en" THEN FallbackVideosEn ELSE FallbackVideosRu
        query_lower == Lower(query)
        hits == {i \in 1..Len(table) : Contains(query_lower, table[i].topic)}
    IN  IF hits = {} THEN <<>>
        ELSE table[CHOOSE i \in hits : \A j \in hits : i <= j].videos

\* _get_fallback_videos(query, language): the videos of the first topic that
\* occurs in the lower-cased query, else the default video
GetFallbackVideos(query, language) ==
    LET table == IF language = "en" THEN FallbackVideosEn ELSE FallbackVideosRu
        default_video == IF language = "en" THEN DefaultVideoEn ELSE DefaultVideoRu
        query_lower == Lower(query)
        hits == {i \in 1..Len(table) : Contains(query_lower, table[i].topic)}
    IN  IF hits = {} THEN <<default_video>>
        ELSE table[CHOOSE i \in hits : \A j \in hits : i <= j].videos

DigitChars == <<"0", "1", "2", "3", "4", "5", "6", "7", "8", "9">>

\* int(s) for a string of decimal digits; for any other model string int raises
IsInt(s) == s # <<>> /\ \A i \in 1..Len(s) : \E d \in 1..10 : DigitChars[d] = s[i]
RECURSIVE ParseInt(_)
ParseInt(s) ==
    IF s = <<>> THEN 0
    ELSE 10 * ParseInt(SubSeq(s, 1, Len(s) - 1))
           + (CHOOSE d \in 0..9 : DigitChars[d + 1] = s[Len(s)])

\* f"{n}" and f"{n:02d}" for n >= 0
RECURSIVE Decimal(_)
Decimal(n) ==
    IF n < 10 THEN <<DigitChars[n + 1]>>
    ELSE Decimal(n \div 10) \o <<DigitChars[(n % 10) + 1]>>
Decimal02(n) == IF n < 10 THEN <<"0">> \o Decimal(n) ELSE Decimal(n)

\* s.split(p)[0]
SplitFirst(s, p) ==
    LET i == FindFrom(s, p, 1) IN IF i = 0 THEN s ELSE SubSeq(s, 1, i - 1)

\* format_duration(duration): "0:00" when an int() raises
FormatDuration(duration) ==
    LET d0 == Remove(duration, <<"P", "T">>)
        hasH == Contains(d0, <<"H">>)
        h == SplitFirst(d0, <<"H">>)
        d1 == IF hasH THEN SplitSecond(d0, <<"H">>) ELSE d0
        hasM == Contains(d1, <<"M">>)
        m == SplitFirst(d1, <<"M">>)
        d2 == IF hasM THEN SplitSecond(d1, <<"M">>) ELSE d1
        hasS == Contains(d2, <<"S">>)
        sec == Remove(d2, <<"S">>)
        raises == \/ hasH /\ ~IsInt(h)
                  \/ hasM /\ ~IsInt(m)
                  \/ hasS /\ ~IsInt(sec)
        minutes == (IF hasH THEN ParseInt(h) * 60 ELSE 0)
                     + (IF hasM THEN ParseInt(m) ELSE 0)
        seconds == IF hasS THEN ParseInt(sec) ELSE 0
    IN  IF raises THEN <<"0", ":", "0", "0">>
        ELSE IF minutes >= 60
        THEN Decimal(minutes \div 60) \o <<":">> \o Decimal02(minutes % 60)
                 \o <<":">> \o Decimal02(seconds)
        ELSE Decimal(minutes) \o <<":">> \o Decimal02(seconds)

\* for video in videos: video["formatted_duration"] = format_duration(...)
Formatted(videos) ==
    [i \in 1..Len(videos) |->
        [videos[i] EXCEPT !.formatted_duration = FormatDuration(videos[i].duration)]]

Motivation == <<"m", "o", "t", "i", "v", "a", "t", "i", "o", "n">>

\* GET /content/videos?limit=&topic=&language=, the client's language being
\* client_language.  Without a topic the handler asks for the popular topics:
\* popular is "none" when there are none, "some" when there are some (then
\* get_youtube_recommendations(topics, limit, language=language) raises
\* TypeError, the method having no parameter language) and "raises" when
\* the query fails; the handler catches both exceptions.  The list the cache
\* holds is the list the handler formats.
GetVideos(limit, topic, outcome, popular) ==
    LET language == client_language
        searched == Truthy(topic)
        r == SearchVideosCall(youtube, topic, limit, language, outcome, now)
        fallback == GetFallbackVideos(Motivation, language)
        found == IF searched THEN r.result
                 ELSE IF popular = "none" THEN fallback
                 ELSE fallback
        videos == IF found = <<>> THEN fallback ELSE found
        formatted == Formatted(videos)
        cached == searched /\ r.result # <<>>
    IN  /\ youtube' =
              IF cached THEN [r.youtube EXCEPT !.cache[r.key].videos = formatted]
              ELSE IF searched THEN r.youtube
              ELSE youtube
        /\ search' = IF searched
                     THEN [key |-> r.key, result |-> r.result, api |-> r.api]
                     ELSE search
        /\ quota_at' = IF searched THEN QuotaAt(r, outcome, now) ELSE quota_at
        /\ stores' = IF cached /\ r.api THEN Stores(r, formatted, now)
                     ELSE IF cached THEN [stores EXCEPT ![r.key].videos = formatted]
                     ELSE stores
        /\ forced' = IF searched THEN Forced(r, outcome) ELSE forced
        /\ videos_response' = [status |-> 200, videos |-> formatted]
        /\ UNCHANGED <<redis, user_topics, conversations, user_sessions, tasks,
                       content_tasks, web, client_language, nevents, msgs, deleted,
                       refreshed, generated_content, quotes, job, gen, response,
                       njobs, produced, now, historyVars>>

(***************************************************************************)
(* SpecVideos: the video endpoint and the cache endpoints of the API       *)
(* process, with or without an API key, for the first VideosMaxTime hours  *)
(***************************************************************************)
VideoQueries == {<<"s", "l", "e", "e", "p">>, <<"j", "o", "y">>}
VideoLimits == {5}
VideosMaxTime == 6

InitVideos ==
    /\ InitChat
    /\ InitContent
    /\ \E configured \in BOOLEAN : InitYouTube(configured)
    /\ InitHistory

NextVideos ==
    \/ \E limit \in VideoLimits, topic \in VideoQueries, outcome \in ApiOutcomes :
          GetVideos(limit, topic, outcome, "none")
    \/ \E limit \in VideoLimits, topic \in {None, <<>>},
          popular \in {"none", "some", "raises"} :
          GetVideos(limit, topic, [kind |-> "error", videos |-> <<>>], popular)
    \/ ClearCache
    \/ ForceRetryYoutubeApi
    \/ now < VideosMaxTime /\ Tick

SpecVideos == InitVideos /\ [][NextVideos]_vars

\* C12: GET /content/videos always answers with a non-empty list of videos,
\* each of them carrying a formatted_duration
C12_VideosNeverEmpty ==
    videos_response # NoVideosResponse =>
        /\ videos_response.status = 200
        /\ videos_response.videos # <<>>
        /\ \A i \in 1..Len(videos_response.videos) :
              videos_response.videos[i].formatted_duration # None

\* a request whose search found nothing was answered with the fallback video
C12_Witness ==
    /\ videos_response.status = 200
    /\ search # NoSearch
    /\ search.result = <<>>
    /\ videos_response.videos = Formatted(GetFallbackVideos(Motivation, client_language))

(***************************************************************************)
(* SpecYouTube: one YouTubeService object, with or without an API key,     *)
(* under any sequence of searches, cache clearings and forced retries,     *)
(* while the clock runs to MaxTime                                         *)
(***************************************************************************)
SearchStep ==
    \E limit \in VideoLimits, query \in VideoQueries, outcome \in ApiOutcomes :
        SearchVideos(query, limit, outcome)

NextYouTube ==
    \/ SearchStep
    \/ ClearCache
    \/ ForceRetryYoutubeApi
    \/ Tick

InitYouTubeService == InitVideos /\ client_language = "ru"

SpecYouTube == InitYouTubeService /\ [][NextYouTube]_vars

\* the search_videos call of this step found no fresh cache entry for its key
PastCache == ~Fresh(youtube, search'.key, now)

\* C14 as stated: after force_retry_youtube_api the quota-exceeded time is
\* None and the count is 0, and the next search_videos call with no fresh
\* cache entry calls the YouTube API
C14_ForcedRetryCallsApiAlways ==
    [][/\ forced'.armed =>
              /\ youtube'.quota_exceeded_time = NoTime
              /\ youtube'.quota_exceeded_count = 0
       /\ SearchStep /\ forced.armed /\ PastCache => search'.api]_vars

\* C14, amended: after force_retry_youtube_api the quota-exceeded time is
\* None and the count is 0, and the next search_videos call with no fresh
\* cache entry calls the YouTube API when an API key is configured
C14_ForcedRetryCallsApi ==
    [][/\ forced'.armed =>
              /\ youtube'.quota_exceeded_time = NoTime
              /\ youtube'.quota_exceeded_count = 0
       /\ SearchStep /\ forced.armed /\ PastCache /\ youtube.youtube => search'.api]_vars

\* a retry forced during a back-off that began at this hour was followed by a
\* search that called the API in the same hour
C14_Witness ==
    /\ forced.backoff
    /\ ~forced.armed
    /\ search.api
    /\ quota_at = now

\* the back-off interval the claim C15 states, for a quota-exceeded count
StatedInterval(count) == IF count < 2 THEN 6 ELSE 18

\* C15 as stated: after a quotaExceeded error at time t, a search_videos call
\* with no fresh cache entry returns [] without calling the API before
\* t + interval, and calls the API at or after t + interval, the interval
\* being 6 hours while the count is below 2 and 18 hours from 2 on
C15_BackoffAlways ==
    [][SearchStep /\ PastCache /\ quota_at # NoTime =>
          IF now < quota_at + StatedInterval(youtube.quota_exceeded_count)
          THEN search'.result = <<>> /\ ~search'.api
          ELSE search'.api]_vars

\* C15, amended: the same, unless force_retry_youtube_api was called since
\* the error
C15_Backoff ==
    [][SearchStep /\ PastCache /\ quota_at # NoTime /\ ~forced.since =>
          IF now < quota_at + StatedInterval(youtube.quota_exceeded_count)
          THEN search'.result = <<>> /\ ~search'.api
          ELSE search'.api]_vars

\* a second quotaExceeded error, and the search 18 hours after it calls the API
C15_Witness ==
    /\ youtube.quota_exceeded_count >= 2
    /\ ~forced.since
    /\ search.api
    /\ now = quota_at + 18
    /\ search.result = <<>>
    /\ youtube.quota_exceeded_time = quota_at

\* C16: the quota-exceeded time is None exactly when the quota-exceeded
\* count is 0, after any sequence of searches, cache clearings and forced
\* retries
C16_QuotaTimeIffCount ==
    (youtube.quota_exceeded_time = NoTime) <=> (youtube.quota_exceeded_count = 0)

\* a quotaExceeded error was followed, without a forced retry, by a search
\* that found videos and ended the back-off
C16_Witness ==
    /\ quota_at # NoTime
    /\ ~forced.since
    /\ youtube.quota_exceeded_count = 0
    /\ youtube.quota_exceeded_time = NoTime

\* every list in the cache is non-empty, and a search_videos call that
\* answers from the cache returns the list stored under its key less than
\* 24 hours ago
OnlyFreshFromCache ==
    /\ \A k \in DOMAIN youtube'.cache : youtube'.cache[k].videos # <<>>
    /\ SearchStep /\ ~search'.api /\ search'.result # <<>> =>
          /\ search'.key \in DOMAIN stores
          /\ search'.result = stores[search'.key].videos
          /\ now - stores[search'.key].at < 24

\* C17 as stated: only non-empty results are cached; a search_videos call
\* with the same key less than 24 hours after the store returns the same
\* list without calling the API, also during a back-off; an entry 24 hours
\* old or older is never returned
C17_CacheServedAlways ==
    [][/\ OnlyFreshFromCache
       /\ SearchStep /\ search'.key \in DOMAIN stores
              /\ now - stores[search'.key].at < 24 =>
              /\ search'.result = stores[search'.key].videos
              /\ ~search'.api]_vars

\* C17, amended: the same, unless clear_cache was called since the store
C17_CacheServed ==
    [][/\ OnlyFreshFromCache
       /\ SearchStep /\ search'.key \in DOMAIN stores
              /\ ~stores[search'.key].cleared
              /\ now - stores[search'.key].at < 24 =>
              /\ search'.result = stores[search'.key].videos
              /\ ~search'.api]_vars

\* a search answered from the cache during a back-off
C17_Witness ==
    /\ Backoff(youtube, now)
    /\ ~search.api
    /\ search.result # <<>>
    /\ search.key \in DOMAIN stores
    /\ search.result = stores[search.key].videos

(***************************************************************************)
(* AIService (ai_service.py): the in-memory conversation history           *)
(***************************************************************************)
HistoryLimit == 20

\* the messages a run may add between two clearings
MaxAdded == 23

\* _get_conversation_key
ConversationKey(mode) == <<"conversation_", mode>>

\* _get_system_prompt: the prompt of the mode, in Russian or in English
SystemPrompt(mode, language) ==
    <<"system prompt", mode, IF language = "ru" THEN "ru" ELSE "en">>

\* _detect_language, from the numbers of Cyrillic and of Latin letters
DetectLanguage(cyrillic_chars, latin_chars) ==
    IF cyrillic_chars > latin_chars /\ cyrillic_chars > 0 THEN "ru" ELSE "en"

Message(role, content) == [role |-> role, content |-> content]

\* the history kept under the key of a mode, [] when there is none
HistoryOf(h, mode) ==
    IF ConversationKey(mode) \in DOMAIN h THEN h[ConversationKey(mode)] ELSE <<>>

\* s[-n:]
Last(s, n) == IF Len(s) > n THEN SubSeq(s, Len(s) - n + 1, Len(s)) ELSE s

\* _add_to_history that keeps the first 20 messages
AddToHistoryKeepFirst(h, mode, role, content) ==
    LET key == ConversationKey(mode)
        appended == Append(HistoryOf(h, mode), Message(role, content))
    IN  (key :> (IF Len(appended) > HistoryLimit
                 THEN SubSeq(appended, 1, HistoryLimit)
                 ELSE appended)) @@ h

\* _add_to_history
AddToHistory(h, mode, role, content) ==
    LET key == ConversationKey(mode)
        appended == Append(HistoryOf(h, mode), Message(role, content))
    IN  (key :> (IF Len(appended) > HistoryLimit
                 THEN Last(appended, HistoryLimit)
                 ELSE appended)) @@ h

\* _get_conversation_messages
GetConversationMessages(h, mode, user_message, language) ==
    <<Message("system", SystemPrompt(mode, language))>>
        \o HistoryOf(h, mode)
        \o <<Message("user", user_message)>>

\* the text of the next message of a mode: its number since the last clear
NextMessage(mode) == <<"message", Len(added[mode]) + 1>>
NextReply(mode) == <<"reply", Len(added[mode]) + 2>>

\* no completion has failed, as far as added tells: every user message is
\* followed by a reply
NoFailure ==
    \A mode \in ChatModes : \A n \in 1..Len(added[mode]) :
        added[mode][n].role = "user" =>
            n < Len(added[mode]) /\ added[mode][n + 1].role = "assistant"
Added ==
    LET RECURSIVE Sum(_)
        Sum(modes) == IF modes = {} THEN 0
                      ELSE LET mode == CHOOSE m \in modes : TRUE
                           IN  Len(added[mode]) + Sum(modes \ {mode})
    IN  Sum(ChatModes)

\* get_response, lines 134-171, as far as the in-memory history goes (Chat
\* models its tables and tasks): the user message is added to the history,
\* the message list is built and sent, and the reply is added when the
\* completion succeeds (ok); the language of the request is client_language.
\* A completion fails only when none has failed since the last clearing.
GetResponse(mode, cyrillic_chars, latin_chars, ok) ==
    LET message == NextMessage(mode)
        detected_language == DetectLanguage(cyrillic_chars, latin_chars)
        final_language == IF client_language = "ru" THEN client_language
                          ELSE detected_language
        h == AddToHistory(conversation_history, mode, "user", message)
        messages == GetConversationMessages(h, mode, message, final_language)
    IN  /\ Added + 2 <= MaxAdded
        /\ ok \/ NoFailure
        /\ llm_messages' = messages
        /\ conversation_history' =
              IF ok THEN AddToHistory(h, mode, "assistant", NextReply(mode)) ELSE h
        /\ added' = [added EXCEPT ![mode] =
                        @ \o <<Message("user", message)>>
                          \o (IF ok THEN <<Message("assistant", NextReply(mode))>>
                              ELSE <<>>)]
        /\ UNCHANGED <<redis, user_topics, conversations, user_sessions, tasks,
                       content_tasks, web, client_language, nevents, msgs, deleted,
                       refreshed, generated_content, quotes, job, gen, response,
                       njobs, produced, youtubeVars>>

\* clear_conversation_history(None)
NoMode == "None"

\* POST /clear-history: clear_conversation_history(mode)
ClearConversationHistory(mode) ==
    /\ conversation_history' =
          IF mode # NoMode
          THEN [k \in DOMAIN conversation_history \ {ConversationKey(mode)} |->
                   conversation_history[k]]
          ELSE <<>>
    /\ added' = IF mode # NoMode THEN [added EXCEPT ![mode] = <<>>]
                ELSE [m \in ChatModes |-> <<>>]
    /\ UNCHANGED <<redis, user_topics, conversations, user_sessions, tasks,
                   content_tasks, web, client_language, nevents, msgs, deleted,
                   refreshed, generated_content, quotes, job, gen, response,
                   njobs, produced, youtubeVars, llm_messages>>

(***************************************************************************)
(* SpecHistory: chats in every mode and POST /clear-history                *)
(***************************************************************************)
LetterCounts == {0, 1}

NextHistory ==
    \/ \E mode \in ChatModes, cyrillic_chars \in LetterCounts,
          latin_chars \in LetterCounts, ok \in BOOLEAN :
          GetResponse(mode, cyrillic_chars, latin_chars, ok)
    \/ \E mode \in ChatModes \cup {NoMode} : ClearConversationHistory(mode)

SpecHistory == Init /\ [][NextHistory]_vars

\* the history of every mode is the last 20, at most, of the messages added
\* to it since it was cleared, in their order
HistoryIsTail ==
    \A mode \in ChatModes :
        LET h == HistoryOf(conversation_history, mode)
            n == Len(added[mode])
            kept == IF n < 20 THEN n ELSE 20
        IN  /\ Len(h) <= 20
            /\ h = SubSeq(added[mode], n - kept + 1, n)

\* a step of clear_conversation_history(mode) removes the history of mode
\* and of no other mode; with None it removes every history
ClearsOnly(mode) ==
    ClearConversationHistory(mode) =>
        \A m \in ChatModes :
            HistoryOf(conversation_history', m) =
                IF mode = NoMode \/ m = mode THEN <<>>
                ELSE HistoryOf(conversation_history, m)

\* C19: the history of each mode holds at most 20 entries, the last
\* min(n, 20) messages added for the mode in order;
\* clear_conversation_history(mode) removes exactly the history of that mode
\* and clear_conversation_history(None) empties all of them
C19_HistoryKeepsLastTwenty ==
    [][/\ HistoryIsTail'
       /\ \A mode \in ChatModes \cup {NoMode} : ClearsOnly(mode)]_vars

\* one mode has had more than 20 messages added and keeps 20, another mode
\* has a history too, and a third was cleared or never used
C19_Witness ==
    \E mode, other \in ChatModes :
        /\ mode # other
        /\ Len(added[mode]) > 20
        /\ Len(HistoryOf(conversation_history, mode)) = 20
        /\ HistoryOf(conversation_history, other) # <<>>

\* a step of get_response for a mode
GetResponseStep(mode) ==
    \E cyrillic_chars \in LetterCounts, latin_chars \in LetterCounts, ok \in BOOLEAN :
        GetResponse(mode, cyrillic_chars, latin_chars, ok)

\* C20: the message list get_response sends to the LLM is the system prompt
\* of the mode and language, then the prior history of the mode, then the
\* current user message, once
C20_UserMessageOnce ==
    [][\A mode \in ChatModes :
          GetResponseStep(mode) =>
              \E language \in Languages :
                  llm_messages' =
                      <<Message("system", SystemPrompt(mode, language))>>
                          \o HistoryOf(conversation_history, mode)
                          \o <<Message("user", NextMessage(mode))>>]_vars

(***************************************************************************)
(* get_cached_topic, tasks.py lines 704-726, among the processes that      *)
(* write the key user_topic:{user_id} and the table user_topics: the       *)
(* handlers of the API process and the steps of extract_topic_from_message *)
(* up to its database update, with LLM replies that the clean-up turns     *)
(* into a default topic.                                                   *)
(***************************************************************************)
\* LLM replies to the topic-extraction prompt: "", "TOPIC:", "stress"
ExtractReplies == {
    <<>>,
    TopicMarkerEn,
    <<"s", "t", "r", "e", "s", "s">> }

\* number of POST /chat requests
MaxTopicChats == 1

\* the requests of the API process but GET /user/{user_id}/recommendations
TopicApiStep ==
    \/ /\ Len(msgs) < MaxTopicChats
       /\ \E u \in Users, llm_ok \in BOOLEAN : Chat(u, client_language, client_language, llm_ok)
    \/ \E u \in Users : GetUserTopic(u)
    \/ GetCachedTopicGet
    \/ GetCachedTopicDb
    \/ GetCachedTopicSet
    \/ GetCachedTopicReturn
    \/ \E u \in Users : RefreshUserTopic(u)
    \/ ForceRefreshTopicDb
    \/ \E u \in Users : DeleteUserAccount(u)
    \/ DeleteUserCache

\* extract_topic_from_message up to tasks.py line 126
TopicWorkerStep ==
    \E t \in BagToSet(tasks) :
        \/ ExtractCache(t, ExtractReplies)
        \/ ExtractReadPrevious(t)
        \/ ExtractUpdate(t)

NextCachedTopic ==
    \/ TopicApiStep /\ UNCHANGED contentVars
    \/ TopicWorkerStep /\ UNCHANGED contentVars
    \/ \E u \in Users : Expire(TopicKey(u)) /\ UNCHANGED contentVars

SpecCachedTopic == Init /\ [][NextCachedTopic]_vars

\* a step of get_cached_topic
GetCachedTopicStep ==
    GetCachedTopicGet \/ GetCachedTopicDb \/ GetCachedTopicSet \/ GetCachedTopicReturn

C1_CachedRecommendationsServed ==
    \A u \in Users, l \in Languages :
        RecommendationsCacheKey(u, l) \in DOMAIN redis
            => GetCachedRecommendations(u) = redis[RecommendationsCacheKey(u, l)].val

\* C2: when a chat message changed the user's topic and every task spawned
\* for it has finished, the recommendations entry of the user and language
\* names the new topic.  (Stated for a message sent while no task of the
\* user was pending, and with no other request or expiry since.)
C2_RecommendationsNameNewTopic ==
    \A u \in Users :
        LET m == LastMsg(u)
        IN  (/\ m # 0
             /\ msgs[m].quiet
             /\ msgs[m].verdict = "changed"
             /\ TasksOf(u) = {}
             /\ web = Idle)
            => /\ RecommendationsCacheKey(u, msgs[m].lang) \in DOMAIN redis
               /\ redis[RecommendationsCacheKey(u, msgs[m].lang)].val.topic = msgs[m].topic

\* C3: a chat message whose extracted topic equals the stored topic, or is
\* judged similar to it, causes no generate_content_for_topic task to be
\* enqueued.  (Stated for a message sent while no task of the user was
\* pending, and with no other request or expiry since.)
C3_NoGenerationForSameTopic ==
    \A m \in 1..Len(msgs) :
        (msgs[m].quiet /\ msgs[m].verdict = "same")
            => ~ \E c \in content_tasks : c.kind = "generate" /\ c.msg = m

\* C5: after extract_topic_from_message returned a result without an error,
\* with no other extraction, refresh, deletion or expiry for the user,
\* get_cached_topic(user) returns the topic of the result and the same topic
\* is the user's current topic in user_topics.
C5_ExtractedTopicIsServed ==
    \A u \in Users :
        LET m == LastMsg(u)
        IN  (/\ m # 0
             /\ msgs[m].quiet
             /\ msgs[m].verdict # "pending"
             /\ web = Idle)
            => /\ GetCachedTopicResult(u) = msgs[m].topic
               /\ GetUserCurrentTopic(u) = msgs[m].topic

\* C6: after DELETE /user/{user_id}/delete returned success and every task
\* enqueued earlier for the user has finished, the user has no row in
\* conversations, user_sessions or user_topics and no user_topic or
\* recommendations key.
C6_DeletedUserHasNoData ==
    \A u \in Users :
        (deleted[u] = "done" /\ TasksOf(u) = {})
            => /\ u \notin conversations
               /\ u \notin user_sessions
               /\ u \notin DOMAIN user_topics
               /\ ~ \E k \in DOMAIN redis : KeyUser(k) = u

\* C8: with no refresh and no account deletion, at most one run of
\* extract_topic_from_message for a user enqueues
\* generate_initial_random_content.
C8_InitialContentOnce ==
    \A u \in Users :
        (refreshed[u] = "never" /\ deleted[u] = "never")
            => Cardinality({c \in content_tasks : c.kind = "initial" /\ c.user = u}) <= 1

\* the first extraction started after a refresh read no previous topic
RefreshedExtractionIsFirst ==
    \A t \in BagToSet(tasks) :
        (t.tag /\ t.pc \in {"read", "updated"}) => t.prev = None

\* C9: when force_refresh_topic returns, the user has neither a user_topic
\* key nor a user_topics row, and the next extract_topic_from_message of the
\* user runs with previous_topic = None.
C9_RefreshForcesFirstMessage ==
    [][/\ (web.pc = "rf_db" /\ web'.pc # "rf_db")
            => /\ TopicKey(web.user) \notin DOMAIN redis'
               /\ web.user \notin DOMAIN user_topics'
       /\ RefreshedExtractionIsFirst']_vars

====
